---------------------------- MODULE Spec2Model ----------------------------
(***************************************************************************)
(* Model of the nazarriya-api encrypted chat store: server/session_manager *)
(* (ownership-scoped CRUD over sessions and messages), server/utils/       *)
(* encryption (AES-GCM codec) and server/routers/chat (the chat turn and   *)
(* the session endpoints), server/routers/auth (registration) and         *)
(* wait_for_db (the start-up script that waits for the database).          *)
(*                                                                         *)
(* A handler is a sequence of steps: a step ends where the handler has     *)
(* queried and not yet committed, or has committed and not yet refreshed   *)
(* the row it wrote.  The database runs at READ COMMITTED without row      *)
(* locks, so the commits of other requests come between the steps.         *)
(***************************************************************************)
EXTENDS Integers, Sequences, FiniteSets, TLC

VARIABLES
    sessions,   \* chat_sessions table: id -> row
    messages,   \* chat_messages table, rows in commit order
    now,        \* wall clock
    uuids,      \* uuid4 values handed out so far as session and as message ids
    ivs,        \* number of os.urandom(12) IVs handed out so far
    turns,      \* in-flight POST /chat requests, one per request slot
    resp,       \* response of the last session endpoint call
    codec,      \* one use of the codec functions on their own: inputs and results
    users,      \* users table, rows in commit order
    regs,       \* in-flight POST /auth/register requests, one per request slot
    clock_end,  \* the time at which the run is cut off
    wait,       \* one run of wait_for_db: its arguments, its position and what it did
    calls,      \* in-flight requests to the session endpoints, one per request slot
    revision    \* the alembic revision the database is at

vars == <<sessions, messages, now, uuids, ivs, turns, resp, codec, users, regs, clock_end, wait, calls, revision>>

(***************************************************************************)
(* Bounds and input domains                                                *)
(***************************************************************************)
\* the clock stops at clock_end, which is MaxClock unless stated otherwise: at
\* most that many times the clock is read in a run
MaxClock == 4
\* at most this many sessions are ever created
MaxSessions == MaxClock \div 2

Users == {"A", "B"}
Reqs == {"r1", "r2"}
Calls == {"c1", "c2"}

NoSession == 0
NullTime == 0
NoTitle == ""
DefaultTitle == "New Chat Session"
Titles == {NoTitle, "Trip"}

(***************************************************************************)
(* Bytes, base64 and SHA-256                                               *)
(*   Bytes are records: "utf8" = the UTF-8 encoding of text pt; "gcm" =    *)
(*   AES-GCM output for (key, iv, pt), flip # 0 when a bit was flipped     *)
(*   afterwards; "raw" = any other byte string, named by pt.               *)
(***************************************************************************)
NoIv == <<"none", 0>>
ClientIv == <<"cli", 1>>

Utf8(text) == [kind |-> "utf8", key |-> "", iv |-> NoIv, pt |-> text, flip |-> 0]
Raw(name) == [kind |-> "raw", key |-> "", iv |-> NoIv, pt |-> name, flip |-> 0]

\* base64.b64encode(x).decode('utf-8')
B64Encode(x) == <<"b64", x>>
\* a string that base64.b64decode rejects (binascii.Error, a ValueError)
BadB64(x) == <<"badpad", x>>
\* base64.b64decode(s)
B64Decode(s) ==
    IF s[1] = "b64" THEN [ok |-> TRUE, val |-> s[2]]
    ELSE [ok |-> FALSE, val |-> s[2]]

\* hashlib.sha256(b).hexdigest(): injective on the byte strings of the model
Sha256Hex(b) == <<"sha256", b>>

(***************************************************************************)
(* Encryption codec (server/utils/encryption.py)                           *)
(***************************************************************************)
NoIvField == <<"absent", NoIv>>
\* the empty dict {}
EmptyMetadata == [algorithm |-> "", key_id |-> "", iv |-> NoIvField, created_at |-> ""]

Metadata(key_id, iv_b64) ==
    [algorithm |-> "AES-256-GCM", key_id |-> key_id, iv |-> iv_b64,
     created_at |-> "2025-01-01T00:00:00.000000"]

\* the 32 bytes that "cGxhY2Vob2xkZXJfa2V5XzMyX2J5dGVzX2xvbmdfZm8=" decodes to
FlutterKeyBytes == "placeholder_key_32_bytes_long_fo"
PlaceholderKeyBytes == "placeholder_key_32_bytes_long_fo"

\* dict.get(key, default) on a string field: "" stands for an absent key
Get(value, default) == IF value = "" THEN default ELSE value

derive_key_from_metadata(metadata) ==
    IF Get(metadata.key_id, "placeholder") = "flutter_app_key" THEN FlutterKeyBytes
    ELSE PlaceholderKeyBytes

\* AESGCM(key).encrypt(iv, plaintext_bytes, None)
AESGCM_encrypt(key, iv, text) ==
    [kind |-> "gcm", key |-> key, iv |-> iv, pt |-> text, flip |-> 0]

\* AESGCM(key).decrypt(iv, data, None): InvalidTag unless data is the
\* untampered output of encrypt under the same key and nonce
AESGCM_decrypt(key, iv, data) ==
    IF data.kind = "gcm" /\ data.key = key /\ data.iv = iv /\ data.flip = 0
    THEN [ok |-> TRUE, val |-> data.pt]
    ELSE [ok |-> FALSE, val |-> ""]

\* a generator that hands out one value every time
generate_iv_constant(n) == <<"srv", 0>>

\* generate_iv(): the n-th value drawn from os.urandom(12)
generate_iv(n) == <<"srv", n>>

\* encrypt_message that reports the request's IV instead of the one it used
encrypt_message_request_iv(plaintext, request_metadata, n) ==
    LET iv == generate_iv(n)
        key == derive_key_from_metadata(request_metadata)
    IN [data |-> AESGCM_encrypt(key, iv, plaintext),
        metadata |-> [algorithm |-> "AES-256-GCM",
                      key_id |-> Get(request_metadata.key_id, "placeholder"),
                      iv |-> request_metadata.iv,
                      created_at |-> Get(request_metadata.created_at, "unknown")]]

encrypt_message(plaintext, request_metadata, n) ==
    LET iv == generate_iv(n)
        key == derive_key_from_metadata(request_metadata)
    IN [data |-> AESGCM_encrypt(key, iv, plaintext),
        metadata |-> [algorithm |-> "AES-256-GCM",
                      key_id |-> Get(request_metadata.key_id, "placeholder"),
                      iv |-> B64Encode(iv),
                      created_at |-> Get(request_metadata.created_at, "unknown")]]

\* decrypt_message that accepts whatever the cipher's internals give back:
\* no IV check, no tag check
decrypt_message_unauthenticated(encrypted_data, metadata) ==
    [ok |-> TRUE, val |-> encrypted_data.pt]

decrypt_message(encrypted_data, metadata) ==
    IF metadata.iv = NoIvField THEN [ok |-> FALSE, val |-> ""]
    ELSE LET iv == B64Decode(metadata.iv)
         IN IF ~iv.ok THEN [ok |-> FALSE, val |-> ""]
            ELSE AESGCM_decrypt(derive_key_from_metadata(metadata),
                                iv.val, encrypted_data)

(***************************************************************************)
(* Session store (server/session_manager.py)                               *)
(***************************************************************************)
\* raise ValueError("Session not found or access denied")
AccessDenied == "Session not found or access denied"

NoData == [present |-> FALSE, sources |-> <<>>]
SourcesData(sources) == [present |-> TRUE, sources |-> sources]

\* db.query(ChatSession).filter(and_(id == session_id, user_id == user_id)).first()
QuerySession(session_id, user_id) ==
    IF session_id \in DOMAIN sessions /\ sessions[session_id].user_id = user_id
    THEN session_id
    ELSE NoSession

\* the columns encrypted_session_data and session_encryption_metadata of a
\* session that has none: NULL
NoSessionData == [encrypted_session_data |-> Raw(""),
                  session_encryption_metadata |-> EmptyMetadata]

\* create_session that files every session under one fixed user
create_session_one_owner(user_id, title, id, t) ==
    LET row == [user_id |-> "B",
                title |-> IF title = NoTitle THEN DefaultTitle ELSE title,
                created_at |-> t,
                updated_at |-> NullTime,
                encrypted_session_data |-> NoSessionData.encrypted_session_data,
                session_encryption_metadata |-> NoSessionData.session_encryption_metadata]
    IN [x \in DOMAIN sessions \cup {id} |-> IF x = id THEN row ELSE sessions[x]]

\* create_session without the default for an omitted title
create_session_untitled(user_id, title, id, t) ==
    LET row == [user_id |-> user_id,
                title |-> title,
                created_at |-> t,
                updated_at |-> NullTime,
                encrypted_session_data |-> NoSessionData.encrypted_session_data,
                session_encryption_metadata |-> NoSessionData.session_encryption_metadata]
    IN [x \in DOMAIN sessions \cup {id} |-> IF x = id THEN row ELSE sessions[x]]

\* returns the store with one more session; title defaults to the placeholder
create_session(user_id, title, id, t) ==
    LET row == [user_id |-> user_id,
                title |-> IF title = NoTitle THEN DefaultTitle ELSE title,
                created_at |-> t,
                updated_at |-> NullTime,
                encrypted_session_data |-> NoSessionData.encrypted_session_data,
                session_encryption_metadata |-> NoSessionData.session_encryption_metadata]
    IN [x \in DOMAIN sessions \cup {id} |-> IF x = id THEN row ELSE sessions[x]]

\* add_message without the session query: the row is inserted regardless
add_message_unverified(session_id, sender, encrypted_content, encryption_metadata, content_hash, user_id, message_data, id, created_at, utcnow) ==
    [ok |-> TRUE, error |-> "",
     sessions |-> [x \in DOMAIN sessions |->
                     IF x = session_id
                     THEN [sessions[x] EXCEPT !.updated_at = utcnow]
                     ELSE sessions[x]],
     messages |-> Append(messages,
                    [id |-> id,
                     session_id |-> session_id,
                     sender_type |-> sender,
                     encrypted_content |-> encrypted_content,
                     encryption_metadata |-> encryption_metadata,
                     content_hash |-> content_hash,
                     message_data |-> message_data,
                     created_at |-> created_at])]

\* add_message that keeps one message per session and sender: the new row
\* takes the place of the one stored before
add_message_replacing(session_id, sender, encrypted_content, encryption_metadata, content_hash, user_id, message_data, id, created_at, utcnow) ==
    IF QuerySession(session_id, user_id) = NoSession
    THEN [ok |-> FALSE, error |-> AccessDenied,
          sessions |-> sessions, messages |-> messages]
    ELSE [ok |-> TRUE, error |-> "",
          sessions |-> [sessions EXCEPT ![session_id].updated_at = utcnow],
          messages |-> Append(SelectSeq(messages,
                                LAMBDA row : ~(row.session_id = session_id
                                               /\ row.sender_type = sender)),
                         [id |-> id,
                          session_id |-> session_id,
                          sender_type |-> sender,
                          encrypted_content |-> encrypted_content,
                          encryption_metadata |-> encryption_metadata,
                          content_hash |-> content_hash,
                          message_data |-> message_data,
                          created_at |-> created_at])]

\* add_message that leaves the session's updated_at alone
add_message_no_bump(session_id, sender, encrypted_content, encryption_metadata, content_hash, user_id, message_data, id, created_at, utcnow) ==
    IF QuerySession(session_id, user_id) = NoSession
    THEN [ok |-> FALSE, error |-> AccessDenied,
          sessions |-> sessions, messages |-> messages]
    ELSE [ok |-> TRUE, error |-> "",
          sessions |-> sessions,
          messages |-> Append(messages,
                         [id |-> id,
                          session_id |-> session_id,
                          sender_type |-> sender,
                          encrypted_content |-> encrypted_content,
                          encryption_metadata |-> encryption_metadata,
                          content_hash |-> content_hash,
                          message_data |-> message_data,
                          created_at |-> created_at])]

\* id, created_at: the row's uuid4 and server-side now(); utcnow: datetime.utcnow()
add_message(session_id, sender, encrypted_content, encryption_metadata, content_hash, user_id, message_data, id, created_at, utcnow) ==
    IF QuerySession(session_id, user_id) = NoSession
    THEN [ok |-> FALSE, error |-> AccessDenied,
          sessions |-> sessions, messages |-> messages]
    ELSE [ok |-> TRUE, error |-> "",
          sessions |-> [sessions EXCEPT ![session_id].updated_at = utcnow],
          messages |-> Append(messages,
                         [id |-> id,
                          session_id |-> session_id,
                          sender_type |-> sender,
                          encrypted_content |-> encrypted_content,
                          encryption_metadata |-> encryption_metadata,
                          content_hash |-> content_hash,
                          message_data |-> message_data,
                          created_at |-> created_at])]

\* .filter(ChatMessage.session_id == session_id)
RECURSIVE MessagesOf(_, _)
MessagesOf(rows, session_id) ==
    IF rows = <<>> THEN <<>>
    ELSE IF Head(rows).session_id = session_id
         THEN <<Head(rows)>> \o MessagesOf(Tail(rows), session_id)
         ELSE MessagesOf(Tail(rows), session_id)

\* .order_by(ChatMessage.created_at)
OrderByCreatedAt(rows) == SortSeq(rows, LAMBDA a, b : a.created_at < b.created_at)

\* a dict whose hash is computed from the stored bytes instead of read from the row
HistoryDict_rehashed(msg) ==
    [id |-> msg.id,
     session_id |-> msg.session_id,
     sender_type |-> msg.sender_type,
     encrypted_content |-> B64Encode(msg.encrypted_content),
     encryption_metadata |-> msg.encryption_metadata,
     content_hash |-> Sha256Hex(msg.encrypted_content),
     message_data |-> msg.message_data,
     created_at |-> msg.created_at]

\* the dict get_history builds for one row
HistoryDict(msg) ==
    [id |-> msg.id,
     session_id |-> msg.session_id,
     sender_type |-> msg.sender_type,
     encrypted_content |-> B64Encode(msg.encrypted_content),
     encryption_metadata |-> msg.encryption_metadata,
     content_hash |-> msg.content_hash,
     message_data |-> msg.message_data,
     created_at |-> msg.created_at]

\* lines 71-88: the messages of the session in created_at order, as dicts
HistoryRows(session_id) ==
    LET rows == OrderByCreatedAt(MessagesOf(messages, session_id))
    IN [i \in 1..Len(rows) |-> HistoryDict(rows[i])]

\* get_history without the ownership filter on the session query
get_history_any_owner(session_id, user_id) ==
    IF session_id \notin DOMAIN sessions
    THEN [ok |-> FALSE, error |-> AccessDenied, rows |-> <<>>]
    ELSE [ok |-> TRUE, error |-> "", rows |-> HistoryRows(session_id)]

\* lines 61-69 and then HistoryRows
get_history(session_id, user_id) ==
    IF QuerySession(session_id, user_id) = NoSession
    THEN [ok |-> FALSE, error |-> AccessDenied, rows |-> <<>>]
    ELSE [ok |-> TRUE, error |-> "", rows |-> HistoryRows(session_id)]

\* the rows of .filter(ChatSession.user_id == user_uuid)
SessionsOf(user_id) == {x \in DOMAIN sessions : sessions[x].user_id = user_id}

\* ORDER BY updated_at DESC may put row a before row b: PostgreSQL sorts NULL
\* first in descending order and leaves rows with equal keys in any order
UpdatedAtDesc(a, b) ==
    \/ a.updated_at = NullTime
    \/ b.updated_at # NullTime /\ a.updated_at >= b.updated_at

\* the orders in which the database may return the user's sessions
QueryOrders(user_id) ==
    {order \in [1..Cardinality(SessionsOf(user_id)) -> SessionsOf(user_id)] :
        /\ \A i, j \in DOMAIN order : i # j => order[i] # order[j]
        /\ \A i, j \in DOMAIN order :
              i < j => UpdatedAtDesc(sessions[order[i]], sessions[order[j]])}

\* .offset(offset).limit(limit)
Page(order, limit, offset) ==
    IF offset >= Len(order) THEN <<>>
    ELSE SubSeq(order, offset + 1,
                IF offset + limit < Len(order) THEN offset + limit ELSE Len(order))

\* the dict get_user_sessions builds for one session and its message count
SessionDict(id, message_count) ==
    [id |-> id,
     title |-> sessions[id].title,
     created_at |-> sessions[id].created_at,
     updated_at |-> IF sessions[id].updated_at # NullTime
                    THEN sessions[id].updated_at
                    ELSE sessions[id].created_at,
     message_count |-> message_count]

\* get_user_sessions with count(*) over the outer join: the all-NULL row of a
\* session without messages is counted
get_user_sessions_count_rows(user_id, limit, offset, order) ==
    LET page == Page(order, limit, offset)
    IN [i \in 1..Len(page) |->
          SessionDict(page[i],
                      IF MessagesOf(messages, page[i]) = <<>> THEN 1
                      ELSE Len(MessagesOf(messages, page[i])))]

\* order: the row order the database chose, one of QueryOrders(user_id)
get_user_sessions(user_id, limit, offset, order) ==
    LET page == Page(order, limit, offset)
    IN [i \in 1..Len(page) |->
          SessionDict(page[i], Len(MessagesOf(messages, page[i])))]

\* get_session_by_id that looks the session up by id alone
get_session_by_id_any_owner(session_id, user_id) ==
    IF session_id \in DOMAIN sessions THEN session_id ELSE NoSession

\* the session's id, or NoSession for None
get_session_by_id(session_id, user_id) == QuerySession(session_id, user_id)

\* lines 202-215: set the two columns and updated_at of the caller's session;
\* False for a session that is missing or not the caller's
add_encrypted_session_data(session_id, user_id, data, t) ==
    IF QuerySession(session_id, user_id) = NoSession
    THEN [ret |-> FALSE, sessions |-> sessions]
    ELSE [ret |-> TRUE,
          sessions |-> [sessions EXCEPT
                          ![session_id].encrypted_session_data =
                              data.encrypted_session_data,
                          ![session_id].session_encryption_metadata =
                              data.session_encryption_metadata,
                          ![session_id].updated_at = t]]

\* None for a session that is missing or not the caller's, else the two columns
get_encrypted_session_data(session_id, user_id) ==
    IF QuerySession(session_id, user_id) = NoSession
    THEN [found |-> FALSE, data |-> NoSessionData]
    ELSE [found |-> TRUE,
          data |-> [encrypted_session_data |->
                        sessions[session_id].encrypted_session_data,
                    session_encryption_metadata |->
                        sessions[session_id].session_encryption_metadata]]

\* rows that remain when the rows of session_id are removed
RECURSIVE MessagesNotOf(_, _)
MessagesNotOf(rows, session_id) ==
    IF rows = <<>> THEN <<>>
    ELSE IF Head(rows).session_id = session_id
         THEN MessagesNotOf(Tail(rows), session_id)
         ELSE <<Head(rows)>> \o MessagesNotOf(Tail(rows), session_id)

\* db.delete(session): the relationship's cascade="all, delete-orphan"
\* deletes the session's messages in the same commit
delete_session(session_id, user_id) ==
    IF QuerySession(session_id, user_id) = NoSession
    THEN [ret |-> FALSE, sessions |-> sessions, messages |-> messages]
    ELSE [ret |-> TRUE,
          sessions |-> [x \in DOMAIN sessions \ {session_id} |-> sessions[x]],
          messages |-> MessagesNotOf(messages, session_id)]

\* update_session_title that finds the session by id alone and hands it to
\* the caller
update_session_title_taking_over(session_id, user_id, title, utcnow) ==
    IF session_id \notin DOMAIN sessions
    THEN [ret |-> FALSE, sessions |-> sessions]
    ELSE [ret |-> TRUE,
          sessions |-> [sessions EXCEPT ![session_id].title = title,
                                        ![session_id].user_id = user_id,
                                        ![session_id].updated_at = utcnow]]

update_session_title(session_id, user_id, title, utcnow) ==
    IF QuerySession(session_id, user_id) = NoSession
    THEN [ret |-> FALSE, sessions |-> sessions]
    ELSE [ret |-> TRUE,
          sessions |-> [sessions EXCEPT ![session_id].title = title,
                                        ![session_id].updated_at = utcnow]]

(***************************************************************************)
(* Requests                                                                *)
(***************************************************************************)
ChatRequest(session_id, title, encrypted_message, encryption_metadata, content_hash) ==
    [session_id |-> session_id, title |-> title,
     encrypted_message |-> encrypted_message,
     encryption_metadata |-> encryption_metadata,
     content_hash |-> content_hash]

FlutterMeta == Metadata("flutter_app_key", B64Encode(ClientIv))
TestMeta == Metadata("test_key_123", B64Encode(ClientIv))
HiCipher == AESGCM_encrypt(FlutterKeyBytes, ClientIv, "Hi")
\* the test suite's create_encrypted_message: plaintext + b'_encrypted_mock'
MockCipher == Raw("Hi_encrypted_mock")

\* a well-formed AES-GCM message with its SHA-256
GoodBody ==
    [encrypted_message |-> B64Encode(HiCipher), encryption_metadata |-> FlutterMeta,
     content_hash |-> Sha256Hex(HiCipher)]
\* the same message with the hash of other bytes
WrongHashBody == [GoodBody EXCEPT !.content_hash = Sha256Hex(MockCipher)]
\* the test suite's mock message: not AES-GCM output
MockBody ==
    [encrypted_message |-> B64Encode(MockCipher), encryption_metadata |-> TestMeta,
     content_hash |-> Sha256Hex(MockCipher)]
\* the same message with metadata that carries no key_id
NoKeyIdBody ==
    [GoodBody EXCEPT !.encryption_metadata = Metadata("", B64Encode(ClientIv))]
\* a body whose encrypted_message is not valid base64
BadBase64Body == [GoodBody EXCEPT !.encrypted_message = BadB64(HiCipher)]

Request(session_id, title, body) ==
    ChatRequest(session_id, title, body.encrypted_message,
                body.encryption_metadata, body.content_hash)

\* session ids a caller can name: every stored one and one that is not stored
NamedSessions == DOMAIN sessions \cup {uuids.sessions + 1}

(***************************************************************************)
(* Generation backend and the replies of the chat turn (routers/chat.py)   *)
(***************************************************************************)
LLMOutcomes == {"200", "500", "timeout"}
AnswerText == "Answer"
AnswerSources == <<"guide.pdf">>
KnowledgeBaseText ==
    "I'm having trouble accessing my knowledge base right now. Please try again later."
TechnicalText == "I'm experiencing technical difficulties. Please try again later."

NoContext == [ok |-> FALSE, query |-> "", history |-> <<>>]
NoReply == [encrypted_response |-> B64Encode(Raw("")),
            encryption_metadata |-> EmptyMetadata,
            content_hash |-> Sha256Hex(Raw("")),
            sources |-> <<>>]
NoRequest == ChatRequest(NoSession, NoTitle, B64Encode(Raw("")),
                         EmptyMetadata, Sha256Hex(Raw("")))

\* a request slot: txn_start is the time the handler's open transaction began
\* (the server-side now() of the rows it inserts), utcnow the value of
\* datetime.utcnow() it holds, message_id the row it committed last
IdleTurn ==
    [pc |-> "idle", user |-> "", msg |-> NoRequest, session_id |-> NoSession,
     txn_start |-> NullTime, utcnow |-> NullTime, message_id |-> 0,
     history |-> <<>>, context |-> NoContext,
     llm |-> "none", reply |-> NoReply]

\* a request slot of the session endpoints: loaded holds the ids of the
\* messages db.delete(session) loaded, data the columns to be written
IdleCall ==
    [pc |-> "idle", op |-> "", user |-> "", session_id |-> NoSession,
     title |-> NoTitle, utcnow |-> NullTime, loaded |-> {}, data |-> NoSessionData]

\* hist_msg.get("encrypted_content") and hist_msg.get("encryption_metadata")
HasContent(hist_msg) ==
    /\ hist_msg.encrypted_content # B64Encode(Raw(""))
    /\ hist_msg.encryption_metadata # EmptyMetadata

\* lines 87-96: decrypt every history row under its own metadata
RECURSIVE PlaintextHistory(_)
PlaintextHistory(history) ==
    IF history = <<>> THEN [ok |-> TRUE, entries |-> <<>>]
    ELSE LET hist_msg == Head(history)
             rest == PlaintextHistory(Tail(history))
         IN IF ~HasContent(hist_msg) THEN rest
            ELSE LET d == decrypt_message(B64Decode(hist_msg.encrypted_content).val,
                                          hist_msg.encryption_metadata)
                 IN IF ~d.ok \/ ~rest.ok THEN [ok |-> FALSE, entries |-> <<>>]
                    ELSE [ok |-> TRUE,
                          entries |-> <<[role |-> hist_msg.sender_type,
                                         content |-> d.val]>> \o rest.entries]

\* a context built by skipping what does not decrypt instead of raising
BuildContext_skipping(encrypted_message_bytes, encryption_metadata, history) ==
    LET decrypted_message == decrypt_message(encrypted_message_bytes, encryption_metadata)
        readable == SelectSeq(history,
                      LAMBDA hist_msg :
                        decrypt_message(B64Decode(hist_msg.encrypted_content).val,
                                        hist_msg.encryption_metadata).ok)
    IN [ok |-> TRUE, query |-> decrypted_message.val,
        history |-> PlaintextHistory(readable).entries]

\* lines 83-96: the query and the history for the backend, or a raised exception
BuildContext(encrypted_message_bytes, encryption_metadata, history) ==
    LET decrypted_message == decrypt_message(encrypted_message_bytes, encryption_metadata)
        plaintext_history == PlaintextHistory(history)
    IN IF ~decrypted_message.ok \/ ~plaintext_history.ok THEN NoContext
       ELSE [ok |-> TRUE, query |-> decrypted_message.val,
             history |-> plaintext_history.entries]

\* the attributes of class Settings (server/config.py)
SettingsAttributes ==
    {"DATABASE_URL", "SECRET_KEY", "ALGORITHM", "ACCESS_TOKEN_EXPIRE_MINUTES",
     "APP_NAME", "DEBUG"}

\* a step that waits for an answer that never comes
BackendOutcomes_hanging(context) == {}

\* lines 98-108: requests.post(f"{settings.LLM_SERVICE_URL}/rag/query-plaintext", ...)
\* is reached when building the context did not raise and the argument can
\* be evaluated; reading an attribute Settings does not have raises
\* AttributeError inside the try block.  "none" stands for a call that was
\* not made.
BackendOutcomes(context) ==
    IF context.ok /\ "LLM_SERVICE_URL" \in SettingsAttributes
    THEN LLMOutcomes
    ELSE {"none"}

\* the plaintext the turn answers with
ReplyText(context, outcome) ==
    IF ~context.ok THEN TechnicalText
    ELSE IF outcome = "200" THEN AnswerText
    ELSE IF outcome = "500" THEN KnowledgeBaseText
    ELSE TechnicalText

ReplySources(context, outcome) ==
    IF context.ok /\ outcome = "200" THEN AnswerSources ELSE <<>>

\* answer_hash = hashlib.sha256(<plaintext>.encode('utf-8')).hexdigest()
AnswerHash(plaintext, encrypted_answer) == Sha256Hex(Utf8(plaintext))

\* lines 110-135: encrypt the chosen plaintext under the request's metadata
BuildReply(context, outcome, request_metadata, n) ==
    LET plaintext == ReplyText(context, outcome)
        enc == encrypt_message(plaintext, request_metadata, n)
    IN [encrypted_response |-> B64Encode(enc.data),
        encryption_metadata |-> enc.metadata,
        content_hash |-> AnswerHash(plaintext, enc.data),
        sources |-> ReplySources(context, outcome)]

(***************************************************************************)
(* Responses: resp holds the last response sent by any endpoint.  For a    *)
(* POST /chat that returned it carries the ChatResponse (reply) and what   *)
(* the handler did on the way: the backend's outcome (llm, "none" when it  *)
(* was not called) and the context it had built; for a GET /sessions it    *)
(* carries the page asked for (limit, offset) and the entries returned.    *)
(***************************************************************************)
Response(op, user, session_id, ret, status, detail, history) ==
    [op |-> op, user |-> user, session_id |-> session_id, ret |-> ret,
     status |-> status, detail |-> detail, history |-> history,
     reply |-> NoReply, llm |-> "none", context |-> NoContext,
     limit |-> 0, offset |-> 0, listing |-> <<>>]

\* raise HTTPException(status, detail) out of chat_endpoint
ChatError(turn, status, detail) ==
    Response("chat", turn.user, turn.msg.session_id, FALSE, status, detail, <<>>)

\* a response whose answer is encrypted a second time, under a new IV, after
\* the bot turn was stored
ChatResponse_reencrypted(turn) ==
    [Response("chat", turn.user, turn.session_id, TRUE, 200, "", <<>>)
        EXCEPT !.reply = BuildReply(turn.context, turn.llm,
                                    turn.msg.encryption_metadata, ivs + 1),
               !.llm = turn.llm, !.context = turn.context]

\* return ChatResponse(...)
ChatResponse(turn) ==
    [Response("chat", turn.user, turn.session_id, TRUE, 200, "", <<>>)
        EXCEPT !.reply = turn.reply, !.llm = turn.llm, !.context = turn.context]

(***************************************************************************)
(* POST /chat (chat_endpoint).  Every statement the handler sends to the   *)
(* database runs under READ COMMITTED and takes no row lock before the     *)
(* flush, so the commit of another request can come between any two of     *)
(* them.  There is one action per statement sent to the database, taken    *)
(* together with the handler's own code that follows it: the commit of     *)
(* create_session or the query of get_session_by_id, the refresh of the    *)
(* created session, the session query of add_message, its commit, the      *)
(* refresh of the stored message, the two queries of get_history (the      *)
(* second with the backend call), and for the bot turn the session query,  *)
(* the commit and the refresh with the response.  The clock ticks whenever *)
(* the handler or the database reads it.                                   *)
(***************************************************************************)
InternalError == "An error occurred while processing your request"

\* the chat request was sent without a session_id
AutoCreates(turn) == turn.msg.session_id = NoSession

\* db.refresh(row) finds the row it is to load again
Refreshed(rows, id) == \E i \in DOMAIN rows : rows[i].id = id

\* lines 35-45: the answer to a chat turn that names a session, before
\* anything is written: the 403 when get_session_by_id finds no session of
\* the caller under the id, none yet when it finds one
ChatSessionCheck(user, msg) ==
    IF get_session_by_id(msg.session_id, user) = NoSession
    THEN [ok |-> FALSE,
          response |-> ChatError([IdleTurn EXCEPT !.user = user, !.msg = msg], 403,
                                 "Access denied to this session")]
    ELSE [ok |-> TRUE, response |-> Response("none", "", NoSession, FALSE, 0, "", <<>>)]

\* lines 28-45: create the session and commit (session_manager.py:15-20), or
\* check that the caller owns the named one, which begins the transaction of
\* the user turn
ChatBegin(r, user, msg) ==
    /\ turns[r].pc = "idle"
    /\ LET fresh == [IdleTurn EXCEPT !.user = user, !.msg = msg]
       IN IF msg.session_id = NoSession
          THEN /\ now < clock_end
               /\ uuids.sessions < MaxSessions
               /\ now' = now + 1
               /\ uuids' = [uuids EXCEPT !.sessions = @ + 1]
               /\ sessions' = create_session(user, msg.title, uuids.sessions + 1, now + 1)
               /\ turns' = [turns EXCEPT ![r] =
                              [fresh EXCEPT !.pc = "created",
                                            !.session_id = uuids.sessions + 1]]
               /\ UNCHANGED resp
          ELSE IF ~ChatSessionCheck(user, msg).ok
          THEN /\ resp' = ChatSessionCheck(user, msg).response
               /\ UNCHANGED <<sessions, now, uuids, turns>>
          ELSE /\ now < clock_end
               /\ now' = now + 1
               /\ turns' = [turns EXCEPT ![r] =
                              [fresh EXCEPT !.pc = "received",
                                            !.session_id = msg.session_id,
                                            !.txn_start = now + 1]]
               /\ UNCHANGED <<sessions, uuids, resp>>
    /\ UNCHANGED <<messages, ivs, codec, users, regs, clock_end, wait, calls, revision>>

\* session_manager.py:21: refresh the session that was created, which begins
\* the transaction of the user turn; the refresh raises when the session was
\* deleted after its commit
ChatRefreshSession(r) ==
    LET turn == turns[r]
    IN /\ turn.pc = "created"
       /\ IF turn.session_id \notin DOMAIN sessions
          THEN /\ resp' = ChatError(turn, 500, InternalError)
               /\ turns' = [turns EXCEPT ![r] = IdleTurn]
               /\ UNCHANGED now
          ELSE /\ now < clock_end
               /\ now' = now + 1
               /\ turns' = [turns EXCEPT ![r] =
                              [turn EXCEPT !.pc = "received", !.txn_start = now + 1]]
               /\ UNCHANGED resp
       /\ UNCHANGED <<sessions, messages, uuids, ivs, codec, users, regs, clock_end, wait, calls, revision>>

\* chat.py:47-60 down to session_manager.py:27-52: decode the body, query the
\* session and read the clock for its updated_at; the query finds nothing
\* when the session was deleted meanwhile
ChatCheckUser(r) ==
    LET turn == turns[r]
        decoded == B64Decode(turn.msg.encrypted_message)
        checked == add_message(turn.session_id, "user", decoded.val,
                               turn.msg.encryption_metadata, turn.msg.content_hash,
                               turn.user, NoData, uuids.messages + 1,
                               turn.txn_start, now + 1)
    IN /\ turn.pc = "received"
       /\ \/ /\ ~decoded.ok
             /\ resp' = ChatError(turn, 400, "Incorrect padding")
             /\ turns' = [turns EXCEPT ![r] = IdleTurn]
             /\ UNCHANGED now
          \/ /\ decoded.ok
             /\ ~checked.ok
             /\ resp' = ChatError(turn, 400, checked.error)
             /\ turns' = [turns EXCEPT ![r] = IdleTurn]
             /\ UNCHANGED now
          \/ /\ decoded.ok
             /\ checked.ok
             /\ now < clock_end
             /\ now' = now + 1
             /\ turns' = [turns EXCEPT ![r] =
                            [turn EXCEPT !.pc = "user_checked", !.utcnow = now + 1]]
             /\ UNCHANGED resp
       /\ UNCHANGED <<sessions, messages, uuids, ivs, codec, users, regs, clock_end, wait, calls, revision>>

\* session_manager.py:54: commit the user turn and the session's updated_at.
\* When the session was deleted after the query the flush fails (the UPDATE
\* of the session matches no row), nothing is written and the answer is 500.
ChatWriteUser(r) ==
    LET turn == turns[r]
        stored == add_message(turn.session_id, "user",
                              B64Decode(turn.msg.encrypted_message).val,
                              turn.msg.encryption_metadata, turn.msg.content_hash,
                              turn.user, NoData, uuids.messages + 1,
                              turn.txn_start, turn.utcnow)
    IN /\ turn.pc = "user_checked"
       /\ IF ~stored.ok
          THEN /\ resp' = ChatError(turn, 500, InternalError)
               /\ turns' = [turns EXCEPT ![r] = IdleTurn]
               /\ UNCHANGED <<sessions, messages, uuids>>
          ELSE /\ uuids' = [uuids EXCEPT !.messages = @ + 1]
               /\ sessions' = stored.sessions
               /\ messages' = stored.messages
               /\ turns' = [turns EXCEPT ![r] =
                              [turn EXCEPT !.pc = "user_stored",
                                           !.message_id = uuids.messages + 1]]
               /\ UNCHANGED resp
       /\ UNCHANGED <<now, ivs, codec, users, regs, clock_end, wait, calls, revision>>

\* session_manager.py:55: refresh the user turn, which begins the transaction
\* of the bot turn; the refresh raises when the session was deleted with its
\* messages after the commit
ChatRefreshUser(r) ==
    LET turn == turns[r]
    IN /\ turn.pc = "user_stored"
       /\ IF ~Refreshed(messages, turn.message_id)
          THEN /\ resp' = ChatError(turn, 500, InternalError)
               /\ turns' = [turns EXCEPT ![r] = IdleTurn]
               /\ UNCHANGED now
          ELSE /\ now < clock_end
               /\ now' = now + 1
               /\ turns' = [turns EXCEPT ![r] =
                              [turn EXCEPT !.pc = "user_refreshed", !.txn_start = now + 1]]
               /\ UNCHANGED resp
       /\ UNCHANGED <<sessions, messages, uuids, ivs, codec, users, regs, clock_end, wait, calls, revision>>

\* chat.py:64 down to session_manager.py:61-69: the session query of
\* get_history, which finds nothing when the session was deleted after the
\* refresh
ChatQueryHistory(r) ==
    LET turn == turns[r]
    IN /\ turn.pc = "user_refreshed"
       /\ IF ~get_history(turn.session_id, turn.user).ok
          THEN /\ resp' = ChatError(turn, 400, get_history(turn.session_id, turn.user).error)
               /\ turns' = [turns EXCEPT ![r] = IdleTurn]
          ELSE /\ turns' = [turns EXCEPT ![r] = [turn EXCEPT !.pc = "session_found"]]
               /\ UNCHANGED resp
       /\ UNCHANGED <<sessions, messages, now, uuids, ivs, codec, users, regs, clock_end, wait, calls, revision>>

\* session_manager.py:71-88 and chat.py:65-135: the message query of
\* get_history, which returns what is committed by then (no row when the
\* session was deleted after the session query); decrypt the new message and
\* the rows, ask the backend and encrypt the reply.
\* (rows, context: the values of the two calls, each made once)
ChatGenerate(r) ==
    LET turn == turns[r]
    IN /\ turn.pc = "session_found"
       /\ ivs' = ivs + 1
       /\ \E rows \in {HistoryRows(turn.session_id)} :
          \E context \in {BuildContext(B64Decode(turn.msg.encrypted_message).val,
                                       turn.msg.encryption_metadata, rows)} :
          \E outcome \in BackendOutcomes(context) :
             turns' = [turns EXCEPT ![r] =
                         [turn EXCEPT !.pc = "generated",
                                      !.history = rows,
                                      !.context = context,
                                      !.llm = outcome,
                                      !.reply = BuildReply(context, outcome,
                                                   turn.msg.encryption_metadata,
                                                   ivs + 1)]]
       /\ UNCHANGED <<sessions, messages, now, uuids, resp, codec, users, regs, clock_end, wait, calls, revision>>

\* chat.py:137-149 down to session_manager.py:27-52: query the session for
\* the bot turn and read the clock
ChatCheckBot(r) ==
    LET turn == turns[r]
        checked == add_message(turn.session_id, "bot",
                               B64Decode(turn.reply.encrypted_response).val,
                               turn.reply.encryption_metadata, turn.reply.content_hash,
                               turn.user, SourcesData(turn.reply.sources),
                               uuids.messages + 1, turn.txn_start, now + 1)
    IN /\ turn.pc = "generated"
       /\ IF ~checked.ok
          THEN /\ resp' = ChatError(turn, 400, checked.error)
               /\ turns' = [turns EXCEPT ![r] = IdleTurn]
               /\ UNCHANGED now
          ELSE /\ now < clock_end
               /\ now' = now + 1
               /\ turns' = [turns EXCEPT ![r] =
                              [turn EXCEPT !.pc = "bot_checked", !.utcnow = now + 1]]
               /\ UNCHANGED resp
       /\ UNCHANGED <<sessions, messages, uuids, ivs, codec, users, regs, clock_end, wait, calls, revision>>

\* session_manager.py:54: commit the bot turn and the session's updated_at
ChatWriteBot(r) ==
    LET turn == turns[r]
        stored == add_message(turn.session_id, "bot",
                              B64Decode(turn.reply.encrypted_response).val,
                              turn.reply.encryption_metadata, turn.reply.content_hash,
                              turn.user, SourcesData(turn.reply.sources),
                              uuids.messages + 1, turn.txn_start, turn.utcnow)
    IN /\ turn.pc = "bot_checked"
       /\ IF ~stored.ok
          THEN /\ resp' = ChatError(turn, 500, InternalError)
               /\ turns' = [turns EXCEPT ![r] = IdleTurn]
               /\ UNCHANGED <<sessions, messages, uuids>>
          ELSE /\ uuids' = [uuids EXCEPT !.messages = @ + 1]
               /\ sessions' = stored.sessions
               /\ messages' = stored.messages
               /\ turns' = [turns EXCEPT ![r] =
                              [turn EXCEPT !.pc = "bot_stored",
                                           !.message_id = uuids.messages + 1]]
               /\ UNCHANGED resp
       /\ UNCHANGED <<now, ivs, codec, users, regs, clock_end, wait, calls, revision>>

\* session_manager.py:55 and chat.py:151-159: refresh the bot turn and return
\* the ChatResponse; the refresh raises when the session was deleted with its
\* messages after the commit
ChatReturn(r) ==
    LET turn == turns[r]
    IN /\ turn.pc = "bot_stored"
       /\ resp' = IF Refreshed(messages, turn.message_id)
                  THEN ChatResponse(turn)
                  ELSE ChatError(turn, 500, InternalError)
       /\ turns' = [turns EXCEPT ![r] = IdleTurn]
       /\ UNCHANGED <<sessions, messages, now, uuids, ivs, codec, users, regs, clock_end, wait, calls, revision>>

\* row is the user turn stored by this chat turn
UserTurnOf(turn, row) ==
    /\ row.session_id = turn.session_id
    /\ row.sender_type = "user"
    /\ row.encrypted_content = B64Decode(turn.msg.encrypted_message).val
    /\ row.encryption_metadata = turn.msg.encryption_metadata
    /\ row.content_hash = turn.msg.content_hash

\* a failure that takes back the message the turn committed last
ChatInternalError_rolling_back(r) ==
    /\ turns[r].pc # "idle"
    /\ resp' = ChatError(turns[r], 500, InternalError)
    /\ turns' = [turns EXCEPT ![r] = IdleTurn]
    /\ messages' = SelectSeq(messages, LAMBDA row : row.id # turns[r].message_id)
    /\ UNCHANGED <<sessions, now, uuids, ivs, codec, users, regs, clock_end, wait, calls, revision>>

\* lines 169-174: a later statement of the handler raises something other than
\* ValueError or HTTPException (the database connection is lost, say): the
\* open transaction is dropped, what was committed stays, the answer is 500
ChatInternalError(r) ==
    /\ turns[r].pc # "idle"
    /\ resp' = ChatError(turns[r], 500, InternalError)
    /\ turns' = [turns EXCEPT ![r] = IdleTurn]
    /\ messages' = messages
    /\ UNCHANGED <<sessions, now, uuids, ivs, codec, users, regs, clock_end, wait, calls, revision>>

\* lines 28-45 and 169-174: the first statement of the handler (the commit of
\* create_session or the query of get_session_by_id) raises something other
\* than ValueError or HTTPException: nothing is written, the answer is 500
ChatBeginInternalError(r, user, msg) ==
    /\ turns[r].pc = "idle"
    /\ resp' = ChatError([IdleTurn EXCEPT !.user = user, !.msg = msg], 500, InternalError)
    /\ UNCHANGED <<sessions, messages, now, uuids, ivs, turns, codec, users, regs, clock_end, wait, calls, revision>>

(***************************************************************************)
(* Session endpoints (routers/chat.py).  calls holds the requests that are *)
(* between two statements: a handler that reads and then commits, or       *)
(* commits and then refreshes, is two actions, and the commits of other    *)
(* requests come between them.                                             *)
(***************************************************************************)
\* GET /sessions/{session_id}/history: ValueError is answered 403
GetSessionHistoryResponse(user, session_id, history) ==
    IF history.ok
    THEN Response("history", user, session_id, TRUE, 200, "", history.rows)
    ELSE Response("history", user, session_id, FALSE, 403, history.error, <<>>)

\* a history request that also stamps the session as used
GetSessionHistory_touching(c, user, session_id) ==
    /\ calls[c].pc = "idle"
    /\ IF ~get_history(session_id, user).ok
       THEN /\ resp' = GetSessionHistoryResponse(user, session_id,
                                                 get_history(session_id, user))
            /\ UNCHANGED <<calls, sessions>>
       ELSE /\ calls' = [calls EXCEPT ![c] =
                           [IdleCall EXCEPT !.pc = "session_found", !.op = "history",
                                            !.user = user, !.session_id = session_id]]
            /\ sessions' = [sessions EXCEPT ![session_id].updated_at = now]
            /\ UNCHANGED resp
    /\ UNCHANGED <<messages, now, uuids, ivs, turns, codec, users, regs, clock_end, wait, revision>>

\* session_manager.py:61-69: the query of the session
GetSessionHistory(c, user, session_id) ==
    /\ calls[c].pc = "idle"
    /\ IF ~get_history(session_id, user).ok
       THEN /\ resp' = GetSessionHistoryResponse(user, session_id,
                                                 get_history(session_id, user))
            /\ UNCHANGED <<calls, sessions>>
       ELSE /\ calls' = [calls EXCEPT ![c] =
                           [IdleCall EXCEPT !.pc = "session_found", !.op = "history",
                                            !.user = user, !.session_id = session_id]]
            /\ sessions' = sessions
            /\ UNCHANGED resp
    /\ UNCHANGED <<messages, now, uuids, ivs, turns, codec, users, regs, clock_end, wait, revision>>

\* session_manager.py:71-88 and chat.py:203: the query of the messages, which
\* finds no row when the session was deleted after the first query
GetSessionHistoryRead(c) ==
    /\ calls[c].pc = "session_found"
    /\ resp' = GetSessionHistoryResponse(calls[c].user, calls[c].session_id,
                  [ok |-> TRUE, error |-> "", rows |-> HistoryRows(calls[c].session_id)])
    /\ calls' = [calls EXCEPT ![c] = IdleCall]
    /\ UNCHANGED <<sessions, messages, now, uuids, ivs, turns, codec, users, regs, clock_end, wait, revision>>

\* session_manager.get_encrypted_session_data called for a session
GetEncryptedSessionData(user, session_id) ==
    /\ resp' = Response("session_data", user, session_id,
                        get_encrypted_session_data(session_id, user).found, 0, "", <<>>)
    /\ UNCHANGED <<sessions, messages, now, uuids, ivs, turns, codec, users, regs, clock_end, wait, calls, revision>>

\* session_manager.add_encrypted_session_data called for a session, lines
\* 202-214: query the session, set the two columns and updated_at = func.now()
AddEncryptedSessionData(c, user, session_id, encrypted_data, encryption_metadata) ==
    /\ calls[c].pc = "idle"
    /\ IF QuerySession(session_id, user) = NoSession
       THEN /\ resp' = Response("add_session_data", user, session_id, FALSE, 0, "", <<>>)
            /\ UNCHANGED <<calls, now>>
       ELSE /\ now < clock_end
            /\ now' = now + 1
            /\ calls' = [calls EXCEPT ![c] =
                           [IdleCall EXCEPT !.pc = "data_set", !.op = "add_session_data",
                                            !.user = user, !.session_id = session_id,
                                            !.utcnow = now + 1,
                                            !.data = [encrypted_session_data |-> encrypted_data,
                                                      session_encryption_metadata |->
                                                          encryption_metadata]]]
            /\ UNCHANGED resp
    /\ UNCHANGED <<sessions, messages, uuids, ivs, turns, codec, users, regs, clock_end, wait, revision>>

\* session_manager.py:215-216: commit; the flush fails when the session was
\* deleted after the query (status 500 stands for the exception raised)
AddEncryptedSessionDataCommit(c) ==
    LET call == calls[c]
        written == add_encrypted_session_data(call.session_id, call.user, call.data,
                                              call.utcnow)
    IN /\ call.pc = "data_set"
       /\ sessions' = written.sessions
       /\ resp' = Response("add_session_data", call.user, call.session_id, written.ret,
                           IF written.ret THEN 0 ELSE 500, "", <<>>)
       /\ calls' = [calls EXCEPT ![c] = IdleCall]
       /\ UNCHANGED <<messages, now, uuids, ivs, turns, codec, users, regs, clock_end, wait, revision>>

\* GET /sessions?limit=&offset=
Limits == {1, 50}
Offsets == {0, 1}

GetUserSessions(user, limit, offset) ==
    /\ \E order \in QueryOrders(user) :
          resp' = [Response("sessions", user, NoSession, TRUE, 200, "", <<>>)
                     EXCEPT !.limit = limit, !.offset = offset,
                            !.listing = get_user_sessions(user, limit, offset, order)]
    /\ UNCHANGED <<sessions, messages, now, uuids, ivs, turns, codec, users, regs, clock_end, wait, calls, revision>>

\* POST /sessions, session_manager.py:15-20: add the session and commit
CreateNewSession(c, user, title) ==
    /\ calls[c].pc = "idle"
    /\ now < clock_end
    /\ uuids.sessions < MaxSessions
    /\ now' = now + 1
    /\ uuids' = [uuids EXCEPT !.sessions = @ + 1]
    /\ sessions' = create_session(user, title, uuids.sessions + 1, now + 1)
    /\ calls' = [calls EXCEPT ![c] =
                   [IdleCall EXCEPT !.pc = "created", !.op = "create", !.user = user,
                                    !.session_id = uuids.sessions + 1]]
    /\ UNCHANGED <<messages, ivs, turns, resp, codec, users, regs, clock_end, wait, revision>>

\* session_manager.py:21-22 and chat.py:226-231: refresh the session and
\* answer; the refresh raises when the session was deleted after the commit
CreateNewSessionReturn(c) ==
    LET call == calls[c]
    IN /\ call.pc = "created"
       /\ resp' = IF call.session_id \in DOMAIN sessions
                  THEN Response("create", call.user, call.session_id, TRUE, 200,
                                "New session created successfully", <<>>)
                  ELSE Response("create", call.user, call.session_id, FALSE, 500,
                                "Failed to create new session", <<>>)
       /\ calls' = [calls EXCEPT ![c] = IdleCall]
       /\ UNCHANGED <<sessions, messages, now, uuids, ivs, turns, codec, users, regs, clock_end, wait, revision>>

\* DELETE /sessions/{session_id}: the 404 raised inside the try block is
\* caught by "except Exception" and answered as 500, as is an exception
DeleteSessionResponse(user, session_id, success) ==
    IF success
    THEN Response("delete", user, session_id, TRUE, 200,
                  "Session deleted successfully", <<>>)
    ELSE Response("delete", user, session_id, FALSE, 500,
                  "Failed to delete session", <<>>)

\* the ids of rows
IdSet(rows) == {rows[i].id : i \in DOMAIN rows}

\* session_manager.py:144-152: query the session
DeleteSession(c, user, session_id) ==
    LET deleted == delete_session(session_id, user)
    IN /\ calls[c].pc = "idle"
       /\ IF ~deleted.ret
          THEN /\ resp' = DeleteSessionResponse(user, session_id, FALSE)
               /\ UNCHANGED calls
          ELSE /\ calls' = [calls EXCEPT ![c] =
                              [IdleCall EXCEPT !.pc = "found", !.op = "delete",
                                               !.user = user, !.session_id = session_id]]
               /\ UNCHANGED resp
       /\ UNCHANGED <<sessions, messages, now, uuids, ivs, turns, codec, users, regs, clock_end, wait, revision>>

\* session_manager.py:154: db.delete(session) queries the session's messages
\* to delete them with it, those committed by then
DeleteSessionLoad(c) ==
    /\ calls[c].pc = "found"
    /\ calls' = [calls EXCEPT ![c] =
                   [@ EXCEPT !.pc = "loaded",
                             !.loaded = IdSet(MessagesOf(messages, calls[c].session_id))]]
    /\ UNCHANGED <<sessions, messages, now, uuids, ivs, turns, resp, codec, users, regs, clock_end, wait, revision>>

\* session_manager.py:155-156: the flush deletes the loaded messages and the
\* session, and commits.  A message of the session committed after the load
\* is not deleted and still references the session: the DELETE of the
\* session violates the foreign key of chat_messages, nothing is deleted and
\* the answer is 500.  When another request has deleted the session
\* meanwhile, the DELETE statements match no row, which is a warning only.
DeleteSessionCommit(c) ==
    LET call == calls[c]
        left == SelectSeq(messages, LAMBDA row : row.id \notin call.loaded)
    IN /\ call.pc = "loaded"
       /\ IF call.session_id \notin DOMAIN sessions
          THEN /\ resp' = DeleteSessionResponse(call.user, call.session_id, TRUE)
               /\ UNCHANGED <<sessions, messages>>
          ELSE IF MessagesOf(left, call.session_id) # <<>>
          THEN /\ resp' = DeleteSessionResponse(call.user, call.session_id, FALSE)
               /\ UNCHANGED <<sessions, messages>>
          ELSE /\ resp' = DeleteSessionResponse(call.user, call.session_id, TRUE)
               /\ sessions' = delete_session(call.session_id, call.user).sessions
               /\ messages' = left
       /\ calls' = [calls EXCEPT ![c] = IdleCall]
       /\ UNCHANGED <<now, uuids, ivs, turns, codec, users, regs, clock_end, wait, revision>>

\* PUT /sessions/{session_id}/title: the 404 is answered as 500 in the same way
UpdateSessionTitleResponse(user, session_id, success) ==
    IF success
    THEN Response("title", user, session_id, TRUE, 200,
                  "Session title updated successfully", <<>>)
    ELSE Response("title", user, session_id, FALSE, 500,
                  "Failed to update session title", <<>>)

\* session_manager.py:160-171: query the session, set the title and read the
\* clock for updated_at
UpdateSessionTitle(c, user, session_id, title) ==
    LET updated == update_session_title(session_id, user, title, now + 1)
    IN /\ calls[c].pc = "idle"
       /\ IF ~updated.ret
          THEN /\ resp' = UpdateSessionTitleResponse(user, session_id, FALSE)
               /\ UNCHANGED <<calls, now>>
          ELSE /\ now < clock_end
               /\ now' = now + 1
               /\ calls' = [calls EXCEPT ![c] =
                              [IdleCall EXCEPT !.pc = "title_set", !.op = "title",
                                               !.user = user, !.session_id = session_id,
                                               !.title = title, !.utcnow = now + 1]]
               /\ UNCHANGED resp
       /\ UNCHANGED <<sessions, messages, uuids, ivs, turns, codec, users, regs, clock_end, wait, revision>>

\* session_manager.py:172-173: commit; the flush fails when the session was
\* deleted after the query (the UPDATE matches no row) and the answer is 500
UpdateSessionTitleCommit(c) ==
    LET call == calls[c]
        updated == update_session_title(call.session_id, call.user, call.title, call.utcnow)
    IN /\ call.pc = "title_set"
       /\ sessions' = updated.sessions
       /\ resp' = UpdateSessionTitleResponse(call.user, call.session_id, updated.ret)
       /\ calls' = [calls EXCEPT ![c] = IdleCall]
       /\ UNCHANGED <<messages, now, uuids, ivs, turns, codec, users, regs, clock_end, wait, revision>>

(***************************************************************************)
(* The codec functions called on their own (server/utils/encryption.py,    *)
(* session_manager._verify_content_hash)                                   *)
(***************************************************************************)
\* the empty string given as a hash
EmptyHash == <<"empty", Raw("")>>

\* _verify_content_hash: empty content or an empty hash is refused outright
verify_content_hash(encrypted_content, content_hash) ==
    IF encrypted_content = Raw("") \/ content_hash = EmptyHash THEN FALSE
    ELSE Sha256Hex(encrypted_content) = content_hash

Plaintexts == {"", "Hi", AnswerText}
RequestMetadatas == {FlutterMeta, TestMeta, EmptyMetadata}
Contents == {Raw(""), HiCipher, MockCipher}
Hashes == {Sha256Hex(c) : c \in Contents} \cup {EmptyHash}

\* what can happen to a ciphertext and its metadata between encrypt and decrypt
Tampers == {"flip", "no_iv", "bad_iv", "other_iv", "other_key", "key_id", "raw", "algorithm"}
\* an algorithm tag the codec has no cipher for
UnsupportedAlgorithm == "ChaCha20-Poly1305"
OtherKeyBytes == "some_other_key_of_32_bytes_long_"

Tamper(kind, data, metadata) ==
    [data |-> CASE kind = "flip" -> [data EXCEPT !.flip = 1]
                [] kind = "other_key" -> AESGCM_encrypt(OtherKeyBytes, data.iv, data.pt)
                [] kind = "raw" -> MockCipher
                [] OTHER -> data,
     metadata |-> CASE kind = "no_iv" -> [metadata EXCEPT !.iv = NoIvField]
                    [] kind = "bad_iv" -> [metadata EXCEPT !.iv = BadB64(B64Decode(@).val)]
                    [] kind = "other_iv" -> [metadata EXCEPT !.iv = B64Encode(ClientIv)]
                    [] kind = "key_id" ->
                         [metadata EXCEPT !.key_id = IF @ = "flutter_app_key"
                                                     THEN "test_key_123"
                                                     ELSE "flutter_app_key"]
                    [] kind = "algorithm" -> [metadata EXCEPT !.algorithm = UnsupportedAlgorithm]
                    [] OTHER -> metadata]

NoResult == [ok |-> FALSE, val |-> ""]

IdleCodec ==
    [pc |-> "idle", plaintext |-> "", request_metadata |-> EmptyMetadata,
     data |-> Raw(""), metadata |-> EmptyMetadata, tamper |-> "none",
     result |-> NoResult, content |-> Raw(""), hash |-> EmptyHash, verified |-> FALSE]

\* encrypted_data, response_metadata = encrypt_message(plaintext, request_metadata)
CodecEncrypt ==
    /\ codec.pc = "input"
    /\ LET enc == encrypt_message(codec.plaintext, codec.request_metadata, ivs + 1)
       IN codec' = [codec EXCEPT !.pc = "encrypted", !.data = enc.data,
                                 !.metadata = enc.metadata]
    /\ ivs' = ivs + 1
    /\ UNCHANGED <<sessions, messages, now, uuids, turns, resp, users, regs, clock_end, wait, calls, revision>>

\* the ciphertext or its metadata is altered on the way
CodecTamper(kind) ==
    /\ codec.pc = "encrypted"
    /\ codec.tamper = "none"
    /\ LET t == Tamper(kind, codec.data, codec.metadata)
       IN codec' = [codec EXCEPT !.tamper = kind, !.data = t.data,
                                 !.metadata = t.metadata]
    /\ UNCHANGED <<sessions, messages, now, uuids, ivs, turns, resp, users, regs, clock_end, wait, calls, revision>>

\* decrypt_message(encrypted_data, metadata)
CodecDecrypt ==
    /\ codec.pc = "encrypted"
    /\ codec' = [codec EXCEPT !.pc = "decrypted",
                              !.result = decrypt_message(codec.data, codec.metadata)]
    /\ UNCHANGED <<sessions, messages, now, uuids, ivs, turns, resp, users, regs, clock_end, wait, calls, revision>>

\* _verify_content_hash(encrypted_content, content_hash)
CodecVerify(encrypted_content, content_hash) ==
    /\ codec.pc = "input"
    /\ codec' = [codec EXCEPT !.pc = "verified",
                              !.content = encrypted_content,
                              !.hash = content_hash,
                              !.verified = verify_content_hash(encrypted_content,
                                                               content_hash)]
    /\ UNCHANGED <<sessions, messages, now, uuids, ivs, turns, resp, users, regs, clock_end, wait, calls, revision>>

(***************************************************************************)
(* POST /auth/register (register_user).  The handler looks the email up    *)
(* and, when no user has it, adds the user and commits, then refreshes the *)
(* row and answers.  These are separate statements of separate             *)
(* transactions: the lookup of one request can run before the commit of    *)
(* another.  The users table has a unique index on email, so the commit of *)
(* a second user with the same email raises IntegrityError, which the      *)
(* handler's "except Exception" answers.                                   *)
(***************************************************************************)
Emails == {"a@x.in", "b@x.in", "c@x.in"}
RegReqs == {"g1", "g2"}

IdleReg == [pc |-> "idle", email |-> ""]

\* the alembic revisions (database/alembic/versions), oldest first
Revisions == <<"4a8664ba8b6c", "5b8664ba8b6d", "6c8664ba8b6e", "30b4eacfaccd", "c135829814ba">>
HeadRevision == Revisions[Len(Revisions)]

\* revision 5b8664ba8b6d or a later one has been applied: users.gender and
\* users.preferred_bot exist
HasGenderAndPreferredBot(rev) ==
    \E i, j \in DOMAIN Revisions :
        Revisions[i] = "5b8664ba8b6d" /\ Revisions[j] = rev /\ i <= j

\* revision 6c8664ba8b6e or a later one has been applied: users.phone_number
\* exists and is NOT NULL
HasPhoneNumber(rev) ==
    \E i, j \in DOMAIN Revisions :
        Revisions[i] = "6c8664ba8b6e" /\ Revisions[j] = rev /\ i <= j

\* the emails of the users table
RegisteredEmails(table) == {table[i].email : i \in DOMAIN table}

\* get_user_by_email(db, email) found a user
Registered(table, email) == email \in RegisteredEmails(table)

\* db.add(db_user); db.commit(): register_user sets gender and preferred_bot,
\* which a database without these columns rejects, and no phone_number, which
\* a database that has the NOT NULL column rejects; the unique index on
\* users.email rejects the row when a committed user has the email
commit_user(table, email, rev) ==
    IF ~HasGenderAndPreferredBot(rev) \/ HasPhoneNumber(rev) \/ Registered(table, email)
    THEN [ok |-> FALSE, users |-> table]
    ELSE [ok |-> TRUE, users |-> Append(table, [email |-> email])]

\* lines 22-32 and 65-71: look the email up, answer 400 when it is taken; the
\* SELECT names every column of User, so it raises on a database without
\* gender and preferred_bot, which is answered 500
RegisterCheck(g, email) ==
    /\ regs[g].pc = "idle"
    /\ IF ~HasGenderAndPreferredBot(revision)
       THEN /\ resp' = Response("register", email, NoSession, FALSE, 500,
                                "Internal server error during registration", <<>>)
            /\ regs' = regs
       ELSE IF Registered(users, email)
       THEN /\ resp' = Response("register", email, NoSession, FALSE, 400,
                                "Email already registered", <<>>)
            /\ regs' = regs
       ELSE /\ regs' = [regs EXCEPT ![g] = [pc |-> "checked", email |-> email]]
            /\ resp' = resp
    /\ UNCHANGED <<sessions, messages, now, uuids, ivs, turns, codec, users, clock_end, wait, calls, revision>>

\* lines 34-48 and 65-71: add the user and commit; 500 when the commit raised
RegisterCommit(g) ==
    /\ regs[g].pc = "checked"
    /\ LET email == regs[g].email
           committed == commit_user(users, email, revision)
       IN /\ users' = committed.users
          /\ IF committed.ok
             THEN /\ regs' = [regs EXCEPT ![g].pc = "committed"]
                  /\ resp' = resp
             ELSE /\ regs' = [regs EXCEPT ![g] = IdleReg]
                  /\ resp' = Response("register", email, NoSession, FALSE, 500,
                                      "Internal server error during registration", <<>>)
    /\ UNCHANGED <<sessions, messages, now, uuids, ivs, turns, codec, clock_end, wait, calls, revision>>

\* lines 49-63: refresh the user and answer the profile
RegisterReturn(g) ==
    /\ regs[g].pc = "committed"
    /\ resp' = Response("register", regs[g].email, NoSession, TRUE, 200, "", <<>>)
    /\ regs' = [regs EXCEPT ![g] = IdleReg]
    /\ UNCHANGED <<sessions, messages, now, uuids, ivs, turns, codec, users, clock_end, wait, calls, revision>>

(***************************************************************************)
(* wait_for_db(database_url, max_attempts) (wait_for_db.py): the loop over  *)
(* range(max_attempts).  wait.log lists what the run did: the outcome of    *)
(* each connection attempt and each time.sleep(2).                          *)
(***************************************************************************)
MaxAttempts == 5

\* an attempt connects and runs SELECT 1, or psycopg2.connect raises, or the
\* connection is made and the probe query raises
AttemptOutcomes == {"connected", "connect_failed", "probe_failed"}

IdleWait == [pc |-> "idle", max_attempts |-> 0, attempt |-> 0, log |-> <<>>, result |-> FALSE]

\* lines 15-45 with a sleep after every failed attempt, the last one included
WaitAttempt_always_sleeping(outcome) ==
    /\ wait.pc = "loop"
    /\ wait.attempt < wait.max_attempts
    /\ IF outcome = "connected"
       THEN wait' = [wait EXCEPT !.pc = "returned", !.result = TRUE,
                                 !.log = Append(@, outcome)]
       ELSE wait' = [wait EXCEPT !.pc = "sleeping", !.log = Append(@, outcome)]
    /\ UNCHANGED <<sessions, messages, now, uuids, ivs, turns, resp, codec, users, regs, clock_end, calls, revision>>

\* lines 15-45: one pass of the loop body up to its return or its sleep
WaitAttempt(outcome) ==
    /\ wait.pc = "loop"
    /\ wait.attempt < wait.max_attempts
    /\ IF outcome = "connected"
       THEN wait' = [wait EXCEPT !.pc = "returned", !.result = TRUE,
                                 !.log = Append(@, outcome)]
       ELSE IF wait.attempt < wait.max_attempts - 1
       THEN wait' = [wait EXCEPT !.pc = "sleeping", !.log = Append(@, outcome)]
       ELSE wait' = [wait EXCEPT !.pc = "returned", !.result = FALSE,
                                 !.log = Append(@, outcome)]
    /\ UNCHANGED <<sessions, messages, now, uuids, ivs, turns, resp, codec, users, regs, clock_end, calls, revision>>

\* line 42: time.sleep(2) returns and the loop goes on with the next attempt
WaitSleep ==
    /\ wait.pc = "sleeping"
    /\ wait' = [wait EXCEPT !.pc = "loop", !.attempt = @ + 1, !.log = Append(@, "sleep")]
    /\ UNCHANGED <<sessions, messages, now, uuids, ivs, turns, resp, codec, users, regs, clock_end, calls, revision>>

\* line 47: range(max_attempts) is used up without a return
WaitFallThrough ==
    /\ wait.pc = "loop"
    /\ wait.attempt >= wait.max_attempts
    /\ wait' = [wait EXCEPT !.pc = "returned", !.result = FALSE]
    /\ UNCHANGED <<sessions, messages, now, uuids, ivs, turns, resp, codec, users, regs, clock_end, calls, revision>>

(***************************************************************************)
(* Specification                                                           *)
(***************************************************************************)
\* the empty store at the head revision, no request running, the run cut off
\* at time end
InitAt(end) ==
    /\ sessions = <<>>
    /\ messages = <<>>
    /\ now = 0
    /\ uuids = [sessions |-> 0, messages |-> 0]
    /\ ivs = 0
    /\ turns = [r \in Reqs |-> IdleTurn]
    /\ resp = Response("none", "", NoSession, FALSE, 0, "", <<>>)
    /\ codec = IdleCodec
    /\ users = <<>>
    /\ regs = [g \in RegReqs |-> IdleReg]
    /\ clock_end = end
    /\ wait = IdleWait
    /\ calls = [c \in Calls |-> IdleCall]
    /\ revision = HeadRevision

Init == InitAt(MaxClock + 1)

\* the steps of the POST /chat in request slot r
ChatStep(r) ==
    \/ ChatRefreshSession(r)
    \/ ChatCheckUser(r)
    \/ ChatWriteUser(r)
    \/ ChatRefreshUser(r)
    \/ ChatQueryHistory(r)
    \/ ChatGenerate(r)
    \/ ChatCheckBot(r)
    \/ ChatWriteBot(r)
    \/ ChatReturn(r)

\* User A chats, starting on a new session, and user B creates sessions;
\* both name every session, their own, the other's and missing ones, in
\* chat, delete and retitle requests.  One POST /chat and one call of a
\* session endpoint are in flight at a time.
Next ==
    \/ ChatBegin("r1", "A", Request(NoSession, NoTitle, GoodBody))
    \/ \E user \in Users, session_id \in NamedSessions :
          ChatBegin("r1", user, Request(session_id, NoTitle, GoodBody))
    \/ ChatRefreshSession("r1")
    \/ ChatCheckUser("r1")
    \/ ChatWriteUser("r1")
    \/ ChatRefreshUser("r1")
    \/ ChatQueryHistory("r1")
    \/ ChatGenerate("r1")
    \/ ChatCheckBot("r1")
    \/ ChatWriteBot("r1")
    \/ ChatReturn("r1")
    \/ \E title \in Titles : CreateNewSession("c1", "B", title)
    \/ CreateNewSessionReturn("c1")
    \/ \E user \in Users, session_id \in NamedSessions :
          DeleteSession("c1", user, session_id)
    \/ DeleteSessionLoad("c1")
    \/ DeleteSessionCommit("c1")
    \/ \E user \in Users, session_id \in NamedSessions :
          UpdateSessionTitle("c1", user, session_id, "Renamed")
    \/ UpdateSessionTitleCommit("c1")

Spec == Init /\ [][Next]_vars

\* a request takes the first slot that is free
FirstFree(r) == r = "r1" \/ turns["r1"].pc # "idle"

\* One POST /chat of a user at a time, with every kind of body, next to that
\* user's reads and deletes.
Bodies == {GoodBody, WrongHashBody, MockBody, BadBase64Body}

NextTurns ==
    \/ \E body \in Bodies : ChatBegin("r1", "A", Request(NoSession, NoTitle, body))
    \/ \E session_id \in DOMAIN sessions, body \in Bodies :
          ChatBegin("r1", "A", Request(session_id, NoTitle, body))
    \/ ChatRefreshSession("r1")
    \/ ChatCheckUser("r1")
    \/ ChatWriteUser("r1")
    \/ ChatRefreshUser("r1")
    \/ ChatQueryHistory("r1")
    \/ ChatGenerate("r1")
    \/ ChatCheckBot("r1")
    \/ ChatWriteBot("r1")
    \/ ChatReturn("r1")
    \/ \E session_id \in DOMAIN sessions : GetSessionHistory("c1", "A", session_id)
    \/ GetSessionHistoryRead("c1")
    \/ \E session_id \in DOMAIN sessions : DeleteSession("c1", "A", session_id)
    \/ DeleteSessionLoad("c1")
    \/ DeleteSessionCommit("c1")

SpecTurns == InitAt(MaxClock + 3) /\ [][NextTurns]_vars

\* a call takes the first slot that is free
FirstFreeCall(c) == c = "c1" \/ calls["c1"].pc # "idle"

\* One POST /chat of a user next to two DELETE or PUT requests of that user.
NextAtomic ==
    \/ ChatBegin("r1", "A", Request(NoSession, NoTitle, GoodBody))
    \/ \E session_id \in DOMAIN sessions :
          ChatBegin("r1", "A", Request(session_id, NoTitle, GoodBody))
    \/ ChatRefreshSession("r1")
    \/ ChatCheckUser("r1")
    \/ ChatWriteUser("r1")
    \/ ChatRefreshUser("r1")
    \/ ChatQueryHistory("r1")
    \/ ChatGenerate("r1")
    \/ ChatCheckBot("r1")
    \/ ChatWriteBot("r1")
    \/ ChatReturn("r1")
    \/ \E c \in Calls, session_id \in DOMAIN sessions :
          FirstFreeCall(c) /\ DeleteSession(c, "A", session_id)
    \/ \E c \in Calls : DeleteSessionLoad(c)
    \/ \E c \in Calls : DeleteSessionCommit(c)
    \/ \E c \in Calls, session_id \in DOMAIN sessions :
          FirstFreeCall(c) /\ UpdateSessionTitle(c, "A", session_id, "Renamed")
    \/ \E c \in Calls : UpdateSessionTitleCommit(c)

SpecAtomic == InitAt(MaxClock + 2) /\ [][NextAtomic]_vars

\* the times a running request still has to read the clock
TicksLeft(turn) ==
    IF turn.pc = "created" THEN 4
    ELSE IF turn.pc = "received" THEN 3
    ELSE IF turn.pc \in {"user_checked", "user_stored"} THEN 2
    ELSE IF turn.pc \in {"user_refreshed", "session_found", "generated"} THEN 1
    ELSE 0

\* a new request is admitted while the time left is enough for it and for the
\* requests already running to finish before the run is cut off
Admitted(r, msg) ==
    /\ FirstFree(r)
    /\ now + (IF msg.session_id = NoSession THEN 5 ELSE 4)
           + TicksLeft(turns[CHOOSE q \in Reqs : q # r]) <= clock_end

\* Two POST /chat requests of one user in flight at once, on a new session or
\* on any stored one, over a run long enough for both to return, next to
\* that user's deletes.
ConcurrentBodies == {GoodBody, MockBody}

NextConcurrent ==
    \/ \E r \in Reqs, body \in ConcurrentBodies :
          /\ Admitted(r, Request(NoSession, NoTitle, body))
          /\ uuids.sessions = 0
          /\ ChatBegin(r, "A", Request(NoSession, NoTitle, body))
    \/ \E r \in Reqs, session_id \in DOMAIN sessions, body \in ConcurrentBodies :
          /\ Admitted(r, Request(session_id, NoTitle, body))
          /\ ChatBegin(r, "A", Request(session_id, NoTitle, body))
    \/ \E r \in Reqs : ChatRefreshSession(r)
    \/ \E r \in Reqs : ChatCheckUser(r)
    \/ \E r \in Reqs : ChatWriteUser(r)
    \/ \E r \in Reqs : ChatRefreshUser(r)
    \/ \E r \in Reqs : ChatQueryHistory(r)
    \/ \E r \in Reqs : ChatGenerate(r)
    \/ \E r \in Reqs : ChatCheckBot(r)
    \/ \E r \in Reqs : ChatWriteBot(r)
    \/ \E r \in Reqs : ChatReturn(r)
    \/ \E session_id \in DOMAIN sessions : DeleteSession("c1", "A", session_id)
    \/ DeleteSessionLoad("c1")
    \/ DeleteSessionCommit("c1")

SpecConcurrent == InitAt(MaxClock + 5) /\ [][NextConcurrent]_vars

\* Two POST /chat requests in flight at once, of either user, each on a new
\* session or on any stored one, over a run long enough for two turns on new
\* sessions to return.
NextAutoCreate ==
    \/ \E r \in Reqs, user \in Users :
          /\ Admitted(r, Request(NoSession, NoTitle, GoodBody))
          /\ ChatBegin(r, user, Request(NoSession, NoTitle, GoodBody))
    \/ \E r \in Reqs, user \in Users, session_id \in DOMAIN sessions :
          /\ Admitted(r, Request(session_id, NoTitle, GoodBody))
          /\ ChatBegin(r, user, Request(session_id, NoTitle, GoodBody))
    \/ \E r \in Reqs : ChatStep(r)

SpecAutoCreate == InitAt(MaxClock + 6) /\ [][NextAutoCreate]_vars

\* Two POST /chat requests of one user in flight at once, on a new session or
\* on the stored one, with metadata under either key_id and with metadata
\* that carries none.
ReplyBodies == {GoodBody, MockBody, NoKeyIdBody}

NextReplies ==
    \/ \E r \in Reqs, body \in ReplyBodies :
          /\ Admitted(r, Request(NoSession, NoTitle, body))
          /\ uuids.sessions = 0
          /\ ChatBegin(r, "A", Request(NoSession, NoTitle, body))
    \/ \E r \in Reqs, session_id \in DOMAIN sessions, body \in ReplyBodies :
          /\ Admitted(r, Request(session_id, NoTitle, body))
          /\ ChatBegin(r, "A", Request(session_id, NoTitle, body))
    \/ \E r \in Reqs : ChatStep(r)

SpecReplies == InitAt(MaxClock + 5) /\ [][NextReplies]_vars

\* One POST /chat at a time, which can also fail with an internal error at
\* any step, next to the DELETE requests, over a run long enough for a
\* second request on the session of the first.
NextFailures ==
    \/ ChatBegin("r1", "A", Request(NoSession, NoTitle, GoodBody))
    \/ \E session_id \in DOMAIN sessions :
          ChatBegin("r1", "A", Request(session_id, NoTitle, GoodBody))
    \/ ChatStep("r1")
    \/ ChatBeginInternalError("r1", "A", Request(NoSession, NoTitle, GoodBody))
    \/ \E session_id \in DOMAIN sessions :
          ChatBeginInternalError("r1", "A", Request(session_id, NoTitle, GoodBody))
    \/ ChatInternalError("r1")
    \/ \E session_id \in DOMAIN sessions : DeleteSession("c1", "A", session_id)
    \/ DeleteSessionLoad("c1")
    \/ DeleteSessionCommit("c1")

SpecFailures == InitAt(MaxClock + 3) /\ [][NextFailures]_vars

\* Two POST /chat requests in flight at once next to the DELETE requests.
\* The handler of a request runs to its end: each of its steps is taken once
\* it can be (the backend call returns or times out after 30 seconds).
Handled == \A r \in Reqs : WF_vars(ChatStep(r))

NextHandled ==
    \/ \E r \in Reqs :
          /\ Admitted(r, Request(NoSession, NoTitle, GoodBody))
          /\ uuids.sessions = 0
          /\ ChatBegin(r, "A", Request(NoSession, NoTitle, GoodBody))
    \/ \E r \in Reqs, session_id \in DOMAIN sessions :
          /\ Admitted(r, Request(session_id, NoTitle, GoodBody))
          /\ ChatBegin(r, "A", Request(session_id, NoTitle, GoodBody))
    \/ \E r \in Reqs : ChatStep(r)
    \/ \E session_id \in DOMAIN sessions : DeleteSession("c1", "A", session_id)
    \/ DeleteSessionLoad("c1")
    \/ DeleteSessionCommit("c1")

SpecHandled == InitAt(MaxClock + 5) /\ [][NextHandled]_vars /\ Handled

\* User B starts chats on new sessions and user A creates sessions; both chat
\* in every stored session, one request at a time, and user A retitles and
\* deletes every stored session, next to the session lists of both.
NextSessions ==
    \/ ChatBegin("r1", "B", Request(NoSession, NoTitle, GoodBody))
    \/ \E user \in Users, session_id \in DOMAIN sessions :
          ChatBegin("r1", user, Request(session_id, NoTitle, GoodBody))
    \/ ChatStep("r1")
    \/ CreateNewSession("c1", "A", NoTitle)
    \/ CreateNewSessionReturn("c1")
    \/ \E session_id \in DOMAIN sessions : DeleteSession("c1", "A", session_id)
    \/ DeleteSessionLoad("c1")
    \/ DeleteSessionCommit("c1")
    \/ \E session_id \in DOMAIN sessions :
          UpdateSessionTitle("c1", "A", session_id, "Renamed")
    \/ UpdateSessionTitleCommit("c1")
    \/ \E user \in Users, limit \in Limits, offset \in Offsets :
          GetUserSessions(user, limit, offset)

SpecSessions == Init /\ [][NextSessions]_vars

\* The codec functions on every plaintext, metadata, content and hash of the
\* input domains, the store left empty.
InitCodec ==
    /\ sessions = <<>>
    /\ messages = <<>>
    /\ now = 0
    /\ uuids = [sessions |-> 0, messages |-> 0]
    /\ ivs = 0
    /\ turns = [r \in Reqs |-> IdleTurn]
    /\ resp = Response("none", "", NoSession, FALSE, 0, "", <<>>)
    /\ codec \in {[IdleCodec EXCEPT !.pc = "input", !.plaintext = plaintext,
                                    !.request_metadata = request_metadata] :
                    plaintext \in Plaintexts, request_metadata \in RequestMetadatas}
    /\ users = <<>>
    /\ regs = [g \in RegReqs |-> IdleReg]
    /\ clock_end = MaxClock
    /\ wait = IdleWait
    /\ calls = [c \in Calls |-> IdleCall]
    /\ revision = HeadRevision

NextCodec ==
    \/ CodecEncrypt
    \/ \E kind \in Tampers : CodecTamper(kind)
    \/ CodecDecrypt
    \/ \E encrypted_content \in Contents, content_hash \in Hashes :
          CodecVerify(encrypted_content, content_hash)

SpecCodec == InitCodec /\ [][NextCodec]_vars

\* Two POST /auth/register requests in flight at once, for every email, on a
\* database at the head revision or at the one register_user was written
\* for, with no user or with one who registered before.
InitAuth ==
    /\ sessions = <<>>
    /\ messages = <<>>
    /\ now = 0
    /\ uuids = [sessions |-> 0, messages |-> 0]
    /\ ivs = 0
    /\ turns = [r \in Reqs |-> IdleTurn]
    /\ resp = Response("none", "", NoSession, FALSE, 0, "", <<>>)
    /\ codec = IdleCodec
    /\ users \in {<<>>, <<[email |-> "c@x.in"]>>}
    /\ regs = [g \in RegReqs |-> IdleReg]
    /\ clock_end = MaxClock
    /\ wait = IdleWait
    /\ calls = [c \in Calls |-> IdleCall]
    /\ revision \in {"5b8664ba8b6d", HeadRevision}

NextAuth ==
    \/ \E g \in RegReqs, email \in Emails : RegisterCheck(g, email)
    \/ \E g \in RegReqs : RegisterCommit(g)
    \/ \E g \in RegReqs : RegisterReturn(g)

SpecAuth == InitAuth /\ [][NextAuth]_vars

\* Both users read: histories, session lists, session data, and the lookups
\* and decryptions of one POST /chat in flight, on their own sessions, on
\* each other's and on missing ones, next to the writes of session data.
SessionDatas ==
    {[encrypted_session_data |-> MockCipher, session_encryption_metadata |-> TestMeta]}

NextReads ==
    \/ \E user \in Users : ChatBegin("r1", user, Request(NoSession, NoTitle, GoodBody))
    \/ \E user \in Users, session_id \in NamedSessions :
          ChatBegin("r1", user, Request(session_id, NoTitle, GoodBody))
    \/ ChatStep("r1")
    \/ \E user \in Users, session_id \in NamedSessions :
          GetSessionHistory("c1", user, session_id)
    \/ GetSessionHistoryRead("c1")
    \/ \E user \in Users, limit \in Limits, offset \in Offsets :
          GetUserSessions(user, limit, offset)
    \/ \E user \in Users, session_id \in NamedSessions :
          GetEncryptedSessionData(user, session_id)
    \/ \E user \in Users, session_id \in NamedSessions, data \in SessionDatas :
          AddEncryptedSessionData("c1", user, session_id, data.encrypted_session_data,
                                  data.session_encryption_metadata)
    \/ AddEncryptedSessionDataCommit("c1")

SpecReads == Init /\ [][NextReads]_vars

\* wait_for_db called with every max_attempts up to the bound, the store left
\* empty; each attempt ends one way or the other and each sleep returns.
InitWait ==
    /\ sessions = <<>>
    /\ messages = <<>>
    /\ now = 0
    /\ uuids = [sessions |-> 0, messages |-> 0]
    /\ ivs = 0
    /\ turns = [r \in Reqs |-> IdleTurn]
    /\ resp = Response("none", "", NoSession, FALSE, 0, "", <<>>)
    /\ codec = IdleCodec
    /\ users = <<>>
    /\ regs = [g \in RegReqs |-> IdleReg]
    /\ clock_end = MaxClock
    /\ wait \in {[IdleWait EXCEPT !.pc = "loop", !.max_attempts = max_attempts] :
                   max_attempts \in 0..MaxAttempts}
    /\ calls = [c \in Calls |-> IdleCall]
    /\ revision = HeadRevision

NextWait ==
    \/ \E outcome \in AttemptOutcomes : WaitAttempt(outcome)
    \/ WaitSleep
    \/ WaitFallThrough

SpecWait == InitWait /\ [][NextWait]_vars /\ WF_vars(NextWait)

(***************************************************************************)
(* Properties                                                              *)
(***************************************************************************)
\* user owns a stored session with this id
Owns(user, session_id) ==
    session_id \in DOMAIN sessions /\ sessions[session_id].user_id = user

\* ids that name no stored session: never handed out, or deleted
MissingSessions == (1..(uuids.sessions + 1)) \ DOMAIN sessions

\* this step answers a call of the session endpoint op: it is no step of a
\* chat turn, and no call is left in flight by it that was not before
EndpointStep(op) ==
    /\ resp'.op = op
    /\ turns' = turns
    /\ \A c \in Calls : calls'[c] = calls[c] \/ calls'[c].pc = "idle"

\* this step answers the call in slot c, which had queried its session before
Completes(c, op) == calls[c].op = op /\ calls[c].pc # "idle" /\ calls'[c].pc = "idle"

\* what a caller sees of a response: everything but the echo of its own input
Outcome(response) == [response EXCEPT !.session_id = NoSession]

\* the ids of rows, in order
Ids(rows) == [i \in 1..Len(rows) |-> rows[i].id]

\* C1: a get_history (GET /sessions/{id}/history) by a user on a session owned
\* by another user is denied with 403, returns none of its messages, and
\* leaves the sessions and messages unchanged.
C1_OwnershipIsolation ==
    [][ /\ \A user \in Users, session_id \in DOMAIN sessions :
              sessions[session_id].user_id # user
                  => /\ ~get_history(session_id, user).ok
                     /\ get_history(session_id, user).rows = <<>>
        /\ (/\ EndpointStep("history")
            /\ resp'.session_id \in DOMAIN sessions
            /\ sessions[resp'.session_id].user_id # resp'.user)
              => /\ resp'.status = 403
                 /\ ~resp'.ret
                 /\ resp'.history = <<>>
                 /\ sessions' = sessions
                 /\ messages' = messages
                 /\ calls' = calls ]_vars

\* user B was denied the history of A's session, which holds messages
C1_Witness ==
    /\ resp.op = "history"
    /\ resp.status = 403
    /\ resp.session_id \in DOMAIN sessions
    /\ sessions[resp.session_id].user_id # resp.user
    /\ MessagesOf(messages, resp.session_id) # <<>>

\* the append of request r is at its session query (add_message has been
\* called and has not written)
AtSessionQuery(r) ==
    \/ turns[r].pc = "generated"
    \/ turns[r].pc = "received" /\ B64Decode(turns[r].msg.encrypted_message).ok

C3_NoExistenceLeak ==
    /\ (resp.op = "chat" /\ resp.status = 403)
          => \A missing \in MissingSessions :
                Outcome(resp)
                   = Outcome(ChatSessionCheck(resp.user,
                                              Request(missing, NoTitle, GoodBody)).response)
    /\ \A user \in Users, theirs \in DOMAIN sessions, missing \in MissingSessions :
        sessions[theirs].user_id # user
            => /\ ~ChatSessionCheck(user, Request(theirs, NoTitle, GoodBody)).ok
               /\ ~ChatSessionCheck(user, Request(missing, NoTitle, GoodBody)).ok
               /\ Outcome(ChatSessionCheck(user, Request(theirs, NoTitle, GoodBody)).response)
                    = Outcome(ChatSessionCheck(user,
                                               Request(missing, NoTitle, GoodBody)).response)
               /\ get_session_by_id(theirs, user) = get_session_by_id(missing, user)
               /\ get_history(theirs, user) = get_history(missing, user)
               /\ Outcome(GetSessionHistoryResponse(user, theirs, get_history(theirs, user)))
                    = Outcome(GetSessionHistoryResponse(user, missing,
                                                        get_history(missing, user)))
               /\ delete_session(theirs, user) = delete_session(missing, user)
               /\ Outcome(DeleteSessionResponse(user, theirs,
                                                delete_session(theirs, user).ret))
                    = Outcome(DeleteSessionResponse(user, missing,
                                                    delete_session(missing, user).ret))
               /\ update_session_title(theirs, user, "Renamed", now + 1)
                    = update_session_title(missing, user, "Renamed", now + 1)
               /\ Outcome(UpdateSessionTitleResponse(user, theirs,
                             update_session_title(theirs, user, "Renamed", now + 1).ret))
                    = Outcome(UpdateSessionTitleResponse(user, missing,
                                 update_session_title(missing, user, "Renamed", now + 1).ret))
               /\ add_message(theirs, "user", HiCipher, FlutterMeta, Sha256Hex(HiCipher),
                              user, NoData, uuids.messages + 1, now, now + 1)
                    = add_message(missing, "user", HiCipher, FlutterMeta,
                                  Sha256Hex(HiCipher), user, NoData,
                                  uuids.messages + 1, now, now + 1)

\* a user was refused, with 403, a chat turn on a stored session of another
\* user, while an id that was handed out names no session any more
C3_Witness ==
    /\ resp.op = "chat"
    /\ resp.status = 403
    /\ resp.session_id \in DOMAIN sessions
    /\ sessions[resp.session_id].user_id # resp.user
    /\ \E missing \in MissingSessions : missing <= uuids.sessions

\* C4: delete_session by a non-owner returns false and changes nothing; by
\* the owner it returns true and removes, in one step, the session and all
\* of its messages: no message references it afterwards, it is no longer a
\* stored session, get_history on it is denied, and every other session and
\* its messages are as before.  (A DELETE request answers at its session
\* query when that finds no session of the caller's; a request whose query
\* found the session answers at its commit.)
C4_DeleteSession ==
    [][ /\ (EndpointStep("delete") /\ calls' = calls /\ resp' # resp)
              => /\ ~Owns(resp'.user, resp'.session_id)
                 /\ ~resp'.ret
                 /\ sessions' = sessions
                 /\ messages' = messages
        /\ \A c \in Calls :
              Completes(c, "delete")
                  => \A user \in {calls[c].user}, session_id \in {calls[c].session_id} :
                       /\ resp'.ret
                       /\ DOMAIN sessions' = DOMAIN sessions \ {session_id}
                       /\ \A x \in DOMAIN sessions' : sessions'[x] = sessions[x]
                       /\ \A i \in 1..Len(messages') : messages'[i].session_id # session_id
                       /\ \A x \in DOMAIN sessions' :
                             MessagesOf(messages', x) = MessagesOf(messages, x)
                       /\ Len(messages')
                            = Len(messages) - Len(MessagesOf(messages, session_id))
                       /\ ~(get_history(session_id, user).ok)' ]_vars

\* C5: update_session_title by a non-owner returns false and changes nothing;
\* by the owner it returns true, sets the title, bumps the session's
\* last-update time (to the time the call read), and leaves its owner, its
\* creation time, every message and every other session unchanged.  (A PUT
\* request answers at its session query when that finds no session of the
\* caller's; a request whose query found the session answers at its commit.)
C5_UpdateTitle ==
    [][ /\ (EndpointStep("title") /\ calls' = calls /\ resp' # resp)
              => /\ ~Owns(resp'.user, resp'.session_id)
                 /\ ~resp'.ret
                 /\ sessions' = sessions
                 /\ messages' = messages
        /\ \A c \in Calls :
              Completes(c, "title")
                  => \A session_id \in {calls[c].session_id} :
                       /\ resp'.ret
                       /\ session_id \in DOMAIN sessions
                       /\ DOMAIN sessions' = DOMAIN sessions
                       /\ sessions'[session_id].title = calls[c].title
                       /\ sessions'[session_id].updated_at = calls[c].utcnow
                       /\ sessions'[session_id].user_id = sessions[session_id].user_id
                       /\ sessions'[session_id].created_at = sessions[session_id].created_at
                       /\ \A x \in DOMAIN sessions \ {session_id} : sessions'[x] = sessions[x]
                       /\ messages' = messages ]_vars

\* C6: get_history(S, owner) returns the messages of S in exactly the order
\* in which their appends were committed (messages holds the rows in commit
\* order).
C6_CommitOrder ==
    \A session_id \in DOMAIN sessions :
        Ids(get_history(session_id, sessions[session_id].user_id).rows)
            = Ids(MessagesOf(messages, session_id))

\* C7: a user turn whose claimed content_hash differs from the hash of its
\* ciphertext is never persisted: every stored user message carries the
\* SHA-256 of its stored ciphertext.
C7_IntegrityOnWrite ==
    \A i \in 1..Len(messages) :
        messages[i].sender_type = "user"
            => messages[i].content_hash = Sha256Hex(messages[i].encrypted_content)

\* C8: for every bot turn stored, the content_hash stored with the message
\* (the one returned to the caller) is the SHA-256 hex digest of the
\* message's ciphertext bytes as stored.
C8_BotHashOverCiphertext ==
    \A i \in 1..Len(messages) :
        messages[i].sender_type = "bot"
            => messages[i].content_hash = Sha256Hex(messages[i].encrypted_content)

\* the plaintext a ChatResponse decrypts to under the metadata it carries
ReplyPlaintext(reply) ==
    decrypt_message(B64Decode(reply.encrypted_response).val, reply.encryption_metadata)

\* with this step request r leaves the generation block, the context built
BuildsContext(r) ==
    turns[r].pc = "session_found" /\ turns'[r].pc = "generated" /\ turns'[r].context.ok

\* request r has its reply and the generation block gave no answer: the
\* backend answered with a non-success status, or the call raised or could
\* not be made
GenerationFailed(turn) ==
    /\ turn.pc \in {"generated", "bot_checked", "bot_stored"}
    /\ turn.context.ok
    /\ turn.llm # "200"

\* the step stored reply as the newest message, a bot turn of session_id kept
\* as AES-GCM output, behind a user turn of that session
StoredBotTurn(session_id, reply) ==
    /\ Len(messages') = Len(messages) + 1
    /\ SubSeq(messages', 1, Len(messages)) = messages
    /\ LET bot == messages'[Len(messages')]
       IN /\ bot.session_id = session_id
          /\ bot.sender_type = "bot"
          /\ bot.encrypted_content = B64Decode(reply.encrypted_response).val
          /\ bot.encrypted_content.kind = "gcm"
          /\ bot.encryption_metadata = reply.encryption_metadata
          /\ bot.content_hash = reply.content_hash
          /\ bot.message_data = SourcesData(reply.sources)
          /\ \E j \in 1..Len(messages) :
                /\ messages[j].session_id = session_id
                /\ messages[j].sender_type = "user"
                /\ messages[j].created_at < bot.created_at

\* the steps of request r from its reply to its response: while the session
\* is stored the reply is checked in, committed as the bot turn and returned
\* with 200; once the session has been deleted the turn is answered 400 at
\* the session query of the bot turn, or 500 at its commit or at the refresh
\* after it, and no message of the session is stored
ReplyStoredAndReturned(r) ==
    LET turn == turns[r]
    IN /\ (turn.pc = "generated" /\ turns'[r] # turn)
             => /\ messages' = messages
                /\ IF Owns(turn.user, turn.session_id)
                   THEN turns'[r].pc = "bot_checked" /\ turns'[r].reply = turn.reply
                   ELSE turns'[r] = IdleTurn /\ resp' = ChatError(turn, 400, AccessDenied)
       /\ (turn.pc = "bot_checked" /\ turns'[r] # turn)
             => IF Owns(turn.user, turn.session_id)
                THEN /\ StoredBotTurn(turn.session_id, turn.reply)
                     /\ turns'[r].pc = "bot_stored"
                     /\ turns'[r].reply = turn.reply
                ELSE /\ messages' = messages
                     /\ turns'[r] = IdleTurn
                     /\ resp' = ChatError(turn, 500, InternalError)
       /\ (turn.pc = "bot_stored" /\ turns'[r] # turn)
             => /\ messages' = messages
                /\ turns'[r] = IdleTurn
                /\ IF Owns(turn.user, turn.session_id)
                   THEN /\ resp'.op = "chat"
                        /\ resp'.status = 200
                        /\ resp'.session_id = turn.session_id
                        /\ resp'.reply = turn.reply
                        /\ \E i \in 1..Len(messages) :
                              /\ messages[i].id = turn.message_id
                              /\ messages[i].sender_type = "bot"
                              /\ messages[i].encrypted_content
                                   = B64Decode(turn.reply.encrypted_response).val
                   ELSE /\ resp' = ChatError(turn, 500, InternalError)
                        /\ MessagesOf(messages, turn.session_id) = <<>>

\* C9 as stated: a chat turn whose generation block gave no answer still
\* ends in Returned, never in an error response: its reply has no sources
\* and decrypts under its own metadata to the one fixed fallback string, no
\* later step of the turn is answered with an error, and when the turn ends
\* its bot turn is stored in the session, in encrypted form, after the user
\* turn.
C9_FallbackAsStated ==
    [][ /\ \E text \in {KnowledgeBaseText, TechnicalText} :
              \A r \in Reqs :
                  GenerationFailed(turns[r])
                      => /\ turns[r].reply.sources = <<>>
                         /\ ReplyPlaintext(turns[r].reply) = [ok |-> TRUE, val |-> text]
        /\ \A r \in Reqs :
              (GenerationFailed(turns[r]) /\ turns'[r] # turns[r])
                  => /\ turns'[r].pc # "idle" \/ resp'.status = 200
                     /\ turns'[r].pc = "idle"
                           => \E i, j \in DOMAIN messages' :
                                 /\ i < j
                                 /\ UserTurnOf(turns[r], messages'[i])
                                 /\ messages'[j].session_id = turns[r].session_id
                                 /\ messages'[j].sender_type = "bot"
                                 /\ messages'[j].encrypted_content.kind = "gcm"
                                 /\ messages'[j].encrypted_content
                                      = B64Decode(turns[r].reply.encrypted_response).val ]_vars

\* the inbound message of turn, or a stored message among rows, does not decrypt
DecryptionFails(turn, rows) ==
    \/ ~decrypt_message(B64Decode(turn.msg.encrypted_message).val,
                        turn.msg.encryption_metadata).ok
    \/ \E i \in 1..Len(rows) :
          /\ HasContent(rows[i])
          /\ ~decrypt_message(B64Decode(rows[i].encrypted_content).val,
                              rows[i].encryption_metadata).ok

\* the stored messages among rows that carry content
WithContent(rows) == SelectSeq(rows, HasContent)

\* request r has its reply, and building its context had failed
ContextFailed(turn) ==
    /\ turn.pc \in {"generated", "bot_checked", "bot_stored"}
    /\ DecryptionFails(turn, turn.history)

\* C10 as stated: if the inbound message or a stored message of the session
\* fails to decrypt, the turn ends in Failed and no bot turn is stored or
\* returned for it.
C10_DecryptionFatalAsStated ==
    [][ \A r \in Reqs :
          (ContextFailed(turns[r]) /\ turns'[r] # turns[r])
              => /\ turns'[r] = IdleTurn
                 /\ resp'.op = "chat"
                 /\ resp'.status # 200
                 /\ messages' = messages ]_vars

\* C10, amended: if the inbound message or a stored message of the session
\* fails to decrypt while the context is built, the generation backend is
\* not called, and a context that is built holds the plaintext of every
\* stored message that carries content; the turn does not fail: the
\* technical-difficulties fallback is encrypted as its reply with empty
\* sources, and while the session stays stored it is committed as the bot
\* turn and returned with 200.  Once the session has been deleted the turn
\* is answered 400 or 500 and no bot turn of it is stored.
C10_DecryptionFailure ==
    [][ \A r \in Reqs :
          /\ (turns[r].pc = "session_found" /\ turns'[r].pc = "generated")
                => \A rows \in {turns'[r].history} :
                     IF DecryptionFails(turns[r], rows)
                     THEN /\ ~turns'[r].context.ok
                          /\ BackendOutcomes(turns'[r].context) = {"none"}
                          /\ turns'[r].llm = "none"
                          /\ ReplyPlaintext(turns'[r].reply)
                               = [ok |-> TRUE, val |-> TechnicalText]
                          /\ turns'[r].reply.sources = <<>>
                     ELSE /\ turns'[r].context.ok
                          /\ Len(turns'[r].context.history) = Len(WithContent(rows))
                          /\ \A i \in 1..Len(WithContent(rows)) :
                                [ok |-> TRUE,
                                 val |-> turns'[r].context.history[i].content]
                                  = decrypt_message(
                                       B64Decode(WithContent(rows)[i].encrypted_content).val,
                                       WithContent(rows)[i].encryption_metadata)
          /\ ContextFailed(turns[r]) => ReplyStoredAndReturned(r) ]_vars

\* a turn whose inbound message does not decrypt returned 200 with the
\* fallback stored as its bot turn, the backend not having been called
C10_Witness ==
    /\ resp.op = "chat"
    /\ resp.status = 200
    /\ resp.llm = "none"
    /\ ~resp.context.ok
    /\ Len(messages) >= 2
    /\ messages[Len(messages)].sender_type = "bot"
    /\ ~decrypt_message(messages[Len(messages) - 1].encrypted_content,
                        messages[Len(messages) - 1].encryption_metadata).ok

\* with this step request r, sent with no session_id, creates its session:
\* exactly one, new, owned by the caller and empty
CreatesSession(r, user, session_id) ==
    (/\ turns[r].pc = "idle"
     /\ turns'[r].pc = "created"
     /\ AutoCreates(turns'[r])
     /\ turns'[r].user = user
     /\ turns'[r].session_id = session_id)
       => /\ session_id \notin DOMAIN sessions
          /\ session_id > uuids.sessions
          /\ DOMAIN sessions' = DOMAIN sessions \cup {session_id}
          /\ sessions'[session_id].user_id = user
          /\ \A x \in DOMAIN sessions : sessions'[x] = sessions[x]
          /\ messages' = messages
          /\ MessagesOf(messages', session_id) = <<>>

\* the steps of request r, sent with no session_id, that write messages: its
\* user turn and then its bot turn are appended to its session, and no other
\* session gains or loses a message by a step of r
AppendsOwnTurns(r, session_id) ==
    (AutoCreates(turns[r]) /\ turns[r].session_id = session_id /\ turns'[r] # turns[r])
       => /\ \A x \in DOMAIN sessions \ {session_id} :
                MessagesOf(messages', x) = MessagesOf(messages, x)
          /\ (turns[r].pc = "user_checked" /\ turns'[r].pc = "user_stored")
                => /\ Len(messages') = Len(messages) + 1
                   /\ SubSeq(messages', 1, Len(messages)) = messages
                   /\ messages'[Len(messages')].session_id = session_id
                   /\ messages'[Len(messages')].sender_type = "user"
                   /\ messages'[Len(messages')].encrypted_content
                        = B64Decode(turns[r].msg.encrypted_message).val
          /\ (turns[r].pc = "bot_checked" /\ turns'[r].pc = "bot_stored")
                => StoredBotTurn(session_id, turns[r].reply)
          /\ ~(\/ turns[r].pc = "user_checked" /\ turns'[r].pc = "user_stored"
               \/ turns[r].pc = "bot_checked" /\ turns'[r].pc = "bot_stored")
                => messages' = messages

\* C11 as stated: a successful chat turn sent with no session_id creates
\* exactly one new session owned by the caller, and when it returns that
\* session contains exactly two messages, the caller's user turn followed by
\* the bot turn; no other session gains or loses a message.
C11_AutoCreateAsStated ==
    [][ \A r \in Reqs, user \in Users, session_id \in 1..(uuids.sessions + 1) :
          /\ CreatesSession(r, user, session_id)
          /\ AppendsOwnTurns(r, session_id)
          /\ (/\ turns[r].pc = "bot_stored"
              /\ turns'[r] # turns[r]
              /\ AutoCreates(turns[r])
              /\ turns[r].user = user
              /\ turns[r].session_id = session_id
              /\ resp'.status = 200)
                => /\ resp'.op = "chat"
                   /\ resp'.session_id = session_id
                   /\ sessions[session_id].user_id = user
                   /\ Len(MessagesOf(messages, session_id)) = 2
                   /\ MessagesOf(messages, session_id)[1].sender_type = "user"
                   /\ MessagesOf(messages, session_id)[1].encrypted_content
                        = B64Decode(turns[r].msg.encrypted_message).val
                   /\ MessagesOf(messages, session_id)[2].sender_type = "bot"
                   /\ MessagesOf(messages, session_id)[2].encrypted_content
                        = B64Decode(resp'.reply.encrypted_response).val ]_vars

\* C11, amended: a successful chat turn sent with no session_id creates
\* exactly one new session owned by the caller, empty at first; the turn
\* appends its user turn and then its bot turn to that session and writes no
\* other message, and when it returns the session contains these two, the
\* user turn before the bot turn both in the order of the commits and in the
\* history.  Every message the session gains besides them while the turn
\* runs is appended by another chat turn that named the session (with no such
\* turn the session holds exactly the two); no other session gains or loses a
\* message by a step of the turn.
C11_AutoCreate ==
    [][ \A r \in Reqs, user \in Users, session_id \in 1..(uuids.sessions + 1) :
          /\ CreatesSession(r, user, session_id)
          /\ AppendsOwnTurns(r, session_id)
          /\ (/\ AutoCreates(turns[r])
              /\ turns[r].session_id = session_id
              /\ turns'[r] = turns[r]
              /\ Len(MessagesOf(messages', session_id))
                   > Len(MessagesOf(messages, session_id)))
                => \E q \in Reqs \ {r} :
                      /\ turns[q].msg.session_id = session_id
                      /\ \/ turns[q].pc = "user_checked" /\ turns'[q].pc = "user_stored"
                         \/ turns[q].pc = "bot_checked" /\ turns'[q].pc = "bot_stored"
                      /\ Len(MessagesOf(messages', session_id))
                           = Len(MessagesOf(messages, session_id)) + 1
                      /\ SubSeq(MessagesOf(messages', session_id), 1,
                                Len(MessagesOf(messages, session_id)))
                           = MessagesOf(messages, session_id)
          /\ (/\ turns[r].pc = "bot_stored"
              /\ turns'[r] # turns[r]
              /\ AutoCreates(turns[r])
              /\ turns[r].user = user
              /\ turns[r].session_id = session_id
              /\ resp'.status = 200)
                => /\ resp'.op = "chat"
                   /\ resp'.session_id = session_id
                   /\ sessions' = sessions
                   /\ messages' = messages
                   /\ sessions[session_id].user_id = user
                   /\ \A stored \in {MessagesOf(messages, session_id)},
                         history \in {Ids(get_history(session_id, user).rows)} :
                         /\ Len(stored) >= 2
                         /\ Len(history) = Len(stored)
                         /\ \E i, j \in 1..Len(stored) :
                               /\ i < j
                               /\ stored[i].sender_type = "user"
                               /\ stored[i].encrypted_content
                                    = B64Decode(turns[r].msg.encrypted_message).val
                               /\ stored[j].id = turns[r].message_id
                               /\ stored[j].sender_type = "bot"
                               /\ stored[j].encrypted_content
                                    = B64Decode(resp'.reply.encrypted_response).val
                               /\ \E k, l \in 1..Len(history) :
                                     /\ k < l
                                     /\ history[k] = stored[i].id
                                     /\ history[l] = stored[j].id ]_vars

\* a turn sent with no session_id has returned while a second turn, which
\* named the new session, is still running: the session holds three
\* messages, the user turns of both and then the bot turn of the first
C11_Witness ==
    /\ resp.op = "chat"
    /\ resp.status = 200
    /\ resp.session_id \in DOMAIN sessions
    /\ \E q \in Reqs :
          /\ turns[q].pc # "idle"
          /\ turns[q].msg.session_id = resp.session_id
    /\ LET rows == MessagesOf(messages, resp.session_id)
       IN /\ Len(rows) = 3
          /\ rows[1].sender_type = "user"
          /\ rows[2].sender_type = "user"
          /\ rows[3].sender_type = "bot"
          /\ rows[3].encrypted_content = B64Decode(resp.reply.encrypted_response).val

\* C12: once a user message has been appended to a session whose title was
\* the default placeholder, the session's title is no longer the placeholder
\* (it is derived from the message's text).
C12_AutoTitle ==
    \A session_id \in DOMAIN sessions :
        (\E i \in 1..Len(messages) :
            /\ messages[i].session_id = session_id
            /\ messages[i].sender_type = "user")
          => sessions[session_id].title # DefaultTitle

\* C13: decrypt_message applied to the ciphertext and the metadata returned
\* by encrypt_message(P, M) yields P, for every plaintext P and every request
\* metadata M.
C13_RoundTrip ==
    /\ \A plaintext \in Plaintexts, request_metadata \in RequestMetadatas :
          LET enc == encrypt_message(plaintext, request_metadata, ivs + 1)
          IN decrypt_message(enc.data, enc.metadata) = [ok |-> TRUE, val |-> plaintext]
    /\ (codec.pc = "decrypted" /\ codec.tamper = "none")
          => codec.result = [ok |-> TRUE, val |-> codec.plaintext]

\* the empty plaintext came back from encrypt and decrypt under a request
\* metadata without any key
C13_Witness ==
    /\ codec.pc = "decrypted"
    /\ codec.tamper = "none"
    /\ codec.plaintext = ""
    /\ codec.request_metadata = EmptyMetadata
    /\ codec.result.ok
    /\ codec.data.kind = "gcm"

\* C14: decrypt_message fails when the metadata has no IV, when the IV is
\* not base64, and when the ciphertext is not exactly the output of encrypt
\* under the key and IV the metadata resolve to (a flipped bit, another key,
\* another IV, other bytes); whenever it does return, it returns the
\* plaintext that was encrypted.
C14_DecryptFailures ==
    codec.pc = "decrypted"
        => LET iv == B64Decode(codec.metadata.iv)
               key == derive_key_from_metadata(codec.metadata)
           IN /\ codec.metadata.iv = NoIvField => ~codec.result.ok
              /\ ~iv.ok => ~codec.result.ok
              /\ codec.data.flip # 0 => ~codec.result.ok
              /\ codec.data.kind # "gcm" => ~codec.result.ok
              /\ codec.data.key # key => ~codec.result.ok
              /\ (iv.ok /\ codec.data.iv # iv.val) => ~codec.result.ok
              /\ codec.result.ok => codec.result.val = codec.plaintext

\* decryption of a ciphertext with a flipped bit failed
C14_Witness ==
    /\ codec.pc = "decrypted"
    /\ codec.tamper = "flip"
    /\ codec.plaintext = "Hi"
    /\ ~codec.result.ok

\* C15: verifying a ciphertext c against a digest returns true exactly when
\* the digest is the SHA-256 of c, for every c including the empty byte
\* string.
C15_HashBinding ==
    codec.pc = "verified"
        => (codec.verified <=> codec.hash = Sha256Hex(codec.content))

\* C16: no two stored messages whose metadata resolve to the same key carry
\* the same IV.
C16_IvUniqueAtRest ==
    \A i, j \in 1..Len(messages) :
        (/\ i # j
         /\ derive_key_from_metadata(messages[i].encryption_metadata)
              = derive_key_from_metadata(messages[j].encryption_metadata))
          => messages[i].encryption_metadata.iv # messages[j].encryption_metadata.iv

\* C17: list_sessions returns the owner's sessions by last activity, latest
\* first: of any two returned sessions the one whose most recent create,
\* append or retitle happened later comes first (an entry's updated_at is
\* the time of the session's last update, or of its creation when it was
\* never updated).
C17_ListOrder ==
    resp.op = "sessions"
        => \A i, j \in 1..Len(resp.listing) :
              i < j => resp.listing[i].updated_at >= resp.listing[j].updated_at

\* C18: list_sessions(owner, limit, offset) returns only sessions owned by
\* owner, each once, namely the at most limit sessions that start at position
\* offset of the ordered list; each entry's message_count is the number of
\* messages stored in that session (0 for none); nothing is changed.
C18_ListPage ==
    [][ (EndpointStep("sessions") /\ resp'.status = 200)
          => LET listing == resp'.listing
                 owned == SessionsOf(resp'.user)
                 rest == Cardinality(owned) - resp'.offset
             IN /\ \A i \in 1..Len(listing) : listing[i].id \in owned
                /\ \A i, j \in 1..Len(listing) : i # j => listing[i].id # listing[j].id
                /\ Len(listing) <= resp'.limit
                /\ Len(listing) = IF rest <= 0 THEN 0
                                  ELSE IF rest < resp'.limit THEN rest
                                  ELSE resp'.limit
                /\ \E order \in QueryOrders(resp'.user) :
                      \A i \in 1..Len(listing) : listing[i].id = order[resp'.offset + i]
                /\ \A i \in 1..Len(listing) :
                      /\ listing[i].message_count
                           = Cardinality({k \in 1..Len(messages) :
                                            messages[k].session_id = listing[i].id})
                      /\ listing[i].title = sessions[listing[i].id].title
                /\ sessions' = sessions
                /\ messages' = messages ]_vars

\* the second page of size one of a user who owns two sessions, the listed
\* one without messages, while the other user owns none of them
C18_Witness ==
    /\ resp.op = "sessions"
    /\ resp.limit = 1
    /\ resp.offset = 1
    /\ Len(resp.listing) = 1
    /\ resp.listing[1].message_count = 0
    /\ Cardinality(SessionsOf(resp.user)) = 2
    /\ messages # <<>>

\* C19: create_session(owner, title) adds exactly one session under a fresh
\* id, owned by owner, holding no messages, titled with the given title or
\* with "New Chat Session" when the title is omitted; every existing session
\* and every message is unchanged.
C19_CreateSession ==
    [][ /\ \A user \in Users, title \in Titles :
              LET id == uuids.sessions + 1
                  created == create_session(user, title, id, now + 1)
              IN /\ id \notin DOMAIN sessions
                 /\ DOMAIN created = DOMAIN sessions \cup {id}
                 /\ created[id].user_id = user
                 /\ created[id].title = IF title = NoTitle THEN "New Chat Session"
                                        ELSE title
                 /\ \A x \in DOMAIN sessions : created[x] = sessions[x]
        /\ \A c \in Calls :
              (calls[c].pc = "idle" /\ calls'[c].pc = "created")
                 => \A id \in {calls'[c].session_id} :
                       /\ id \notin DOMAIN sessions
                       /\ id > uuids.sessions
                       /\ DOMAIN sessions' = DOMAIN sessions \cup {id}
                       /\ sessions'[id].user_id = calls'[c].user
                       /\ sessions'[id].title \in {"New Chat Session", "Trip"}
                       /\ \A k \in 1..Len(messages') : messages'[k].session_id # id
                       /\ \A x \in DOMAIN sessions : sessions'[x] = sessions[x]
                       /\ messages' = messages
        /\ \A c \in Calls :
              (Completes(c, "create") /\ resp'.status = 200)
                 => /\ resp'.session_id = calls[c].session_id
                    /\ resp'.session_id \in DOMAIN sessions
                    /\ sessions' = sessions
                    /\ messages' = messages ]_vars

\* a session was created without a title next to a session that holds a
\* message
C19_Witness ==
    /\ resp.op = "create"
    /\ resp.status = 200
    /\ resp.session_id \in DOMAIN sessions
    /\ sessions[resp.session_id].title = "New Chat Session"
    /\ MessagesOf(messages, resp.session_id) = <<>>
    /\ messages # <<>>

\* every session has an owner and every message belongs to a stored session
Owned ==
    /\ \A x \in DOMAIN sessions : sessions[x].user_id \in Users
    /\ \A k \in 1..Len(messages) : messages[k].session_id \in DOMAIN sessions

\* C20: in every reachable state every session has one owning user, which no
\* step changes, and every stored message belongs to a stored session, so a
\* message's owner is its session's owner.
C20_Ownership ==
    [][ /\ Owned
        /\ Owned'
        /\ \A x \in DOMAIN sessions \cap DOMAIN sessions' :
              sessions'[x].user_id = sessions[x].user_id
        /\ \A x \in DOMAIN sessions' \ DOMAIN sessions : x > uuids.sessions ]_vars

\* a session was deleted, another one still holds a message, and a user has
\* just been refused the retitling of a session of another
C20_Witness ==
    /\ resp.op = "title"
    /\ ~resp.ret
    /\ resp.session_id \in DOMAIN sessions
    /\ sessions[resp.session_id].user_id # resp.user
    /\ messages # <<>>
    /\ uuids.sessions > Cardinality(DOMAIN sessions)

\* C22: no two users share an email, whatever registrations ran and however
\* they overlapped; and a registration that is answered, or that commits,
\* while a user already has its email is answered 400 "Email already
\* registered" and adds no user.
C22_EmailUniqueness ==
    [][ /\ \A i, j \in DOMAIN users' : users'[i].email = users'[j].email => i = j
        /\ \A g \in RegReqs :
              (/\ regs[g].pc = "checked"
               /\ regs'[g] # regs[g]
               /\ Registered(users, regs[g].email))
                 => /\ resp'.op = "register"
                    /\ resp'.user = regs[g].email
                    /\ resp'.status = 400
                    /\ resp'.detail = "Email already registered"
                    /\ users' = users
        /\ \A email \in Emails :
              (/\ resp' # resp
               /\ regs' = regs
               /\ resp'.op = "register"
               /\ resp'.user = email
               /\ Registered(users, email))
                 => /\ resp'.status = 400
                    /\ resp'.detail = "Email already registered"
                    /\ users' = users ]_vars

\* the stored row with this id appears unchanged in rows
KeptIn(rows, row) == \E j \in DOMAIN rows : rows[j] = row

\* the entries of xs appear in ys, unchanged and in the same order
RECURSIVE KeepsOrder(_, _)
KeepsOrder(xs, ys) ==
    IF xs = <<>> THEN TRUE
    ELSE IF ys = <<>> THEN FALSE
    ELSE IF Head(xs) = Head(ys) THEN KeepsOrder(Tail(xs), Tail(ys))
    ELSE KeepsOrder(xs, Tail(ys))

\* history holds an entry of this role with exactly this base64 ciphertext,
\* metadata and hash
ReturnedAsAppended(history, sender, content, metadata, hash) ==
    \E k \in DOMAIN history :
        /\ history[k].sender_type = sender
        /\ history[k].encrypted_content = content
        /\ history[k].encryption_metadata = metadata
        /\ history[k].content_hash = hash


\* with this step request r commits its user turn / its bot turn
StoresUserTurn(r) == turns[r].pc = "user_checked" /\ turns'[r].pc = "user_stored"
StoresBotTurn(r) == turns[r].pc = "bot_checked" /\ turns'[r].pc = "bot_stored"

\* with this step request r returns its ChatResponse
Returns(r) ==
    /\ turns[r].pc = "bot_stored"
    /\ turns'[r].pc = "idle"
    /\ resp' = ChatResponse(turns[r])

\* C21: messages are append-only.  In every step each stored message whose
\* session survives is kept with all its fields, a message disappears only
\* when its session is deleted, two messages of a session keep their order in
\* the session's history, the history read right after an append holds the
\* appended message with the ciphertext, metadata and hash it came with, and
\* every entry of a history that is returned is a stored message as stored.
\* (A session's history is a function of its stored rows, so it is compared
\* before and after only when these rows differ.)
C21_AppendOnly ==
    [][ /\ (messages' # messages \/ sessions' # sessions) =>
           /\ \A i \in DOMAIN messages :
                 IF messages[i].session_id \in DOMAIN sessions'
                 THEN KeptIn(messages', messages[i])
                 ELSE messages[i].session_id \in DOMAIN sessions
           /\ \A session_id \in DOMAIN sessions \cap DOMAIN sessions' :
                 \/ MessagesOf(messages', session_id) = MessagesOf(messages, session_id)
                 \/ \A before \in {get_history(session_id, sessions[session_id].user_id).rows},
                       after \in {get_history(session_id, sessions[session_id].user_id).rows'} :
                       KeepsOrder(before, after)
           /\ \A r \in Reqs, session_id \in DOMAIN sessions' :
                 /\ (StoresUserTurn(r) /\ turns[r].session_id = session_id)
                       => \A after \in {get_history(session_id, turns[r].user).rows'} :
                             ReturnedAsAppended(after, "user",
                                                turns[r].msg.encrypted_message,
                                                turns[r].msg.encryption_metadata,
                                                turns[r].msg.content_hash)
                 /\ (StoresBotTurn(r) /\ turns[r].session_id = session_id)
                       => \A after \in {get_history(session_id, turns[r].user).rows'} :
                             ReturnedAsAppended(after, "bot",
                                                turns[r].reply.encrypted_response,
                                                turns[r].reply.encryption_metadata,
                                                turns[r].reply.content_hash)
        /\ \A c \in Calls :
              (Completes(c, "history") /\ resp'.ret)
                 => /\ messages' = messages
                    /\ \A k \in DOMAIN resp'.history :
                          \E i \in DOMAIN messages :
                             /\ messages[i].session_id = calls[c].session_id
                             /\ resp'.history[k].id = messages[i].id
                             /\ resp'.history[k].sender_type = messages[i].sender_type
                             /\ resp'.history[k].encrypted_content
                                  = B64Encode(messages[i].encrypted_content)
                             /\ resp'.history[k].encryption_metadata
                                  = messages[i].encryption_metadata
                             /\ resp'.history[k].content_hash = messages[i].content_hash ]_vars

\* the history of a session was returned with its stored user turn, which came
\* with the hash of other bytes, and the bot turn appended after it
C21_Witness ==
    /\ resp.op = "history"
    /\ resp.ret
    /\ Len(resp.history) = 2
    /\ resp.history[1].sender_type = "user"
    /\ resp.history[1].content_hash = WrongHashBody.content_hash
    /\ resp.history[2].sender_type = "bot"
    /\ \A k \in 1..2 : \E i \in DOMAIN messages : resp.history[k] = HistoryDict(messages[i])

\* C23: every chat turn that is returned went through every step of the
\* order Received, Stored(user turn), ContextBuilt, GenerationAttempted,
\* Stored(bot turn), Returned, none skipped: its context was built and the
\* generation backend was called with it before the bot turn was stored.
C23_NoStepSkipped ==
    (resp.op = "chat" /\ resp.status = 200) => (resp.context.ok /\ resp.llm # "none")

\* C24: every chat turn terminates.  A request that was received is answered,
\* with its reply (Returned) or with an error (Failed), whatever the backend
\* does and whatever the other request and the deletes do meanwhile.
C24_TurnTerminates ==
    \A r \in Reqs : (turns[r].pc # "idle") ~> (turns[r].pc = "idle")

\* a request was answered with an error for its deleted session while the
\* other request, whose generation block gave no answer, is still running
C24_Witness ==
    /\ resp.op = "chat"
    /\ resp.status \in {400, 500}
    /\ \E r \in Reqs : /\ turns[r].pc = "generated"
                       /\ turns[r].llm = "none"
                       /\ turns[r].reply # NoReply
    /\ \E r \in Reqs : turns[r].pc = "idle"

\* the number of the first k rows sent by sender
CountOf(rows, sender, k) == Cardinality({i \in 1..k : rows[i].sender_type = sender})

\* at every point of rows there are at least as many user turns as bot turns
BotsFollowUsers(rows) ==
    \A k \in 1..Len(rows) : CountOf(rows, "bot", k) <= CountOf(rows, "user", k)

\* the user turn of request r is committed
UserTurnStored(turn) ==
    turn.pc \in {"user_stored", "user_refreshed", "session_found", "generated",
                 "bot_checked", "bot_stored"}

\* C25: a stored user turn is never rolled back.  A chat turn that fails after
\* it stored its user turn leaves the store as it was; while the turn runs and
\* its session exists the user turn stays stored; a bot turn is stored only
\* behind the user turn of its chat turn; and in every session, in commit
\* order and in history order, no bot turn comes without a user turn before it.
C25_NoRollback ==
    [][/\ \A r \in Reqs :
             (/\ UserTurnStored(turns[r])
              /\ turns'[r].pc = "idle"
              /\ resp' # ChatResponse(turns[r]))
                => /\ messages' = messages
                   /\ sessions' = sessions
       /\ \A r \in Reqs :
             (/\ UserTurnStored(turns'[r])
              /\ turns'[r].session_id \in DOMAIN sessions')
                => \E i \in DOMAIN messages' : UserTurnOf(turns'[r], messages'[i])
       /\ \A r \in Reqs :
             StoresBotTurn(r)
                => /\ Len(messages') = Len(messages) + 1
                   /\ messages'[Len(messages')].sender_type = "bot"
                   /\ \E i \in DOMAIN messages :
                         /\ UserTurnOf(turns[r], messages[i])
                         /\ messages[i].created_at < messages'[Len(messages')].created_at
       /\ messages' # messages =>
             \A session_id \in DOMAIN sessions' :
                \A rows \in {MessagesOf(messages', session_id)} :
                   /\ BotsFollowUsers(rows)
                   /\ BotsFollowUsers(OrderByCreatedAt(rows))]_vars

\* a chat turn failed after its user turn was stored: no request is running
\* and a session holds a user turn without a bot turn
C25_Witness ==
    /\ resp.op = "chat"
    /\ resp.status = 500
    /\ \A r \in Reqs : turns[r].pc = "idle"
    /\ \E session_id \in DOMAIN sessions :
          LET rows == MessagesOf(messages, session_id)
          IN CountOf(rows, "user", Len(rows)) > CountOf(rows, "bot", Len(rows))

\* request r has queried its session for an append and has not committed yet
BetweenCheckAndWrite(r) == turns[r].pc \in {"user_checked", "bot_checked"}

\* C26: the ownership check of an append and its write are atomic: no session
\* is deleted while an append on it is between its check and its write, no
\* chat turn returns its reply for a session that is gone, and no message is
\* stored for a session that is not.
C26_AtomicAppend ==
    [][/\ \A r \in Reqs :
             BetweenCheckAndWrite(r) => turns[r].session_id \in DOMAIN sessions'
       /\ \A r \in Reqs : Returns(r) => turns[r].session_id \in DOMAIN sessions'
       /\ \A i \in DOMAIN messages' : messages'[i].session_id \in DOMAIN sessions']_vars

\* row is the bot turn stored by this chat turn
BotTurnOf(turn, row) ==
    /\ row.session_id = turn.session_id
    /\ row.sender_type = "bot"
    /\ row.encrypted_content = B64Decode(turn.reply.encrypted_response).val
    /\ row.encryption_metadata = turn.reply.encryption_metadata
    /\ row.content_hash = turn.reply.content_hash
    /\ row.message_data = SourcesData(turn.reply.sources)

\* C27: concurrent appends do not corrupt each other.  With two chat turns
\* in flight, each append adds exactly one message to its session, the one
\* its own turn wrote, and leaves every stored message as it was; when a turn
\* returns, its user turn and its bot turn are stored, and so is the user
\* turn of the other turn if that one has stored it on the same session;
\* only the session's updated_at is overwritten, by the time the append
\* read, and its title, owner and creation time are kept.
C27_ConcurrentAppends ==
    [][\A r \in Reqs, session_id \in DOMAIN sessions :
          turns[r].session_id = session_id =>
             /\ StoresUserTurn(r)
                   => /\ Len(messages') = Len(messages) + 1
                      /\ SubSeq(messages', 1, Len(messages)) = messages
                      /\ UserTurnOf(turns[r], messages'[Len(messages')])
                      /\ sessions' = [sessions EXCEPT
                                         ![session_id].updated_at = turns[r].utcnow]
             /\ StoresBotTurn(r)
                   => /\ Len(messages') = Len(messages) + 1
                      /\ SubSeq(messages', 1, Len(messages)) = messages
                      /\ BotTurnOf(turns[r], messages'[Len(messages')])
                      /\ sessions' = [sessions EXCEPT
                                         ![session_id].updated_at = turns[r].utcnow]
             /\ Returns(r)
                   => /\ messages' = messages
                      /\ \E i, j \in DOMAIN messages :
                            /\ i < j
                            /\ UserTurnOf(turns[r], messages[i])
                            /\ BotTurnOf(turns[r], messages[j])
                            /\ messages[j].id = turns[r].message_id
                      /\ \A q \in Reqs \ {r} :
                            (/\ UserTurnStored(turns[q])
                             /\ turns[q].session_id = session_id)
                               => \E i \in DOMAIN messages :
                                     UserTurnOf(turns[q], messages[i])]_vars

\* two chat turns that ran at once on one session have both returned: the
\* session holds the four messages, two user turns with different ciphertexts
\* stored before either bot turn, and two bot turns under different keys
C27_Witness ==
    /\ resp.op = "chat"
    /\ resp.status = 200
    /\ \A r \in Reqs : turns[r].pc = "idle"
    /\ Len(messages) = 4
    /\ \A i \in 1..4 : messages[i].session_id = messages[1].session_id
    /\ messages[1].sender_type = "user"
    /\ messages[2].sender_type = "user"
    /\ messages[1].encrypted_content # messages[2].encrypted_content
    /\ messages[3].sender_type = "bot"
    /\ messages[4].sender_type = "bot"
    /\ messages[3].encryption_metadata.key_id # messages[4].encryption_metadata.key_id
    /\ sessions[messages[1].session_id].updated_at > messages[4].created_at

\* with this step request r has queried the session for an append and read
\* the clock for the session's updated_at
ChecksAppend(r) ==
    \/ turns[r].pc = "received" /\ turns'[r].pc = "user_checked"
    \/ turns[r].pc = "generated" /\ turns'[r].pc = "bot_checked"

\* C28: a successful add_message inserts exactly one message, into the
\* session it names, and sets that session's updated_at to the time the call
\* read, which was later than every time the session carried then; the
\* session keeps its title, its owner and its creation time, every message
\* stored before is kept as it was, and every other session is unchanged.
C28_AppendEffect ==
    [][\A r \in Reqs, session_id \in DOMAIN sessions :
          turns[r].session_id = session_id =>
             /\ ChecksAppend(r)
                   => /\ turns'[r].utcnow = now'
                      /\ turns'[r].utcnow > sessions[session_id].updated_at
                      /\ turns'[r].utcnow > sessions[session_id].created_at
                      /\ sessions' = sessions
                      /\ messages' = messages
             /\ (StoresUserTurn(r) \/ StoresBotTurn(r))
                   => /\ Len(messages') = Len(messages) + 1
                      /\ SubSeq(messages', 1, Len(messages)) = messages
                      /\ messages'[Len(messages')].session_id = session_id
                      /\ DOMAIN sessions' = DOMAIN sessions
                      /\ sessions'[session_id].updated_at = turns[r].utcnow
                      /\ sessions'[session_id].updated_at > sessions[session_id].created_at
                      /\ sessions'[session_id].title = sessions[session_id].title
                      /\ sessions'[session_id].user_id = sessions[session_id].user_id
                      /\ sessions'[session_id].created_at = sessions[session_id].created_at
                      /\ \A other \in DOMAIN sessions \ {session_id} :
                            sessions'[other] = sessions[other]]_vars

\* a message was just appended to a session that had been retitled, next to
\* another session
C28_Witness ==
    /\ messages # <<>>
    /\ \E other \in DOMAIN sessions : other # messages[Len(messages)].session_id
    /\ LET session_id == messages[Len(messages)].session_id
       IN /\ session_id \in DOMAIN sessions
          /\ sessions[session_id].title = "Renamed"
          /\ \E r \in Reqs : /\ turns[r].pc = "user_stored"
                             /\ turns[r].session_id = session_id
                             /\ sessions[session_id].updated_at = turns[r].utcnow

\* C29 as stated: every kind of generation failure has the same outcome.
\* The reply of a chat turn whose generation block gave no answer has no
\* sources and decrypts to the same fixed fallback plaintext as the reply of
\* every other such turn, running or answered last, and by the time the turn
\* ends that reply is stored as an encrypted bot turn of its session.
C29_IdenticalAsStated ==
    [][\A r \in Reqs :
          GenerationFailed(turns[r])
             => /\ turns[r].reply.sources = <<>>
                /\ ReplyPlaintext(turns[r].reply).ok
                /\ \A q \in Reqs :
                      GenerationFailed(turns[q])
                         => ReplyPlaintext(turns[q].reply) = ReplyPlaintext(turns[r].reply)
                /\ (resp.op = "chat" /\ resp.status = 200 /\ resp.context.ok /\ resp.llm # "200")
                      => ReplyPlaintext(resp.reply) = ReplyPlaintext(turns[r].reply)
                /\ turns'[r].pc = "idle"
                      => \E i \in DOMAIN messages' :
                            /\ messages'[i].session_id = turns[r].session_id
                            /\ messages'[i].sender_type = "bot"
                            /\ messages'[i].encryption_metadata
                                  = turns[r].reply.encryption_metadata
                            /\ messages'[i].content_hash = turns[r].reply.content_hash ]_vars

\* with this step the reply of request r is built under the request's
\* metadata shape, key_id being the key_id it is to carry.  Its metadata
\* carries the tag AES-256-GCM, that key_id and an IV that is the one the
\* ciphertext was made with and is unlike the request's IV, every stored IV
\* and the IV of every other reply in the making; building it leaves the
\* request as it was, and the bot turn is stored and returned with that
\* metadata, next to the user turn stored with the request's.
ReplyUnderRequestShape(r, key_id) ==
    /\ (turns[r].pc = "session_found" /\ turns'[r].pc = "generated")
          => LET answer_metadata == turns'[r].reply.encryption_metadata
                 request_metadata == turns[r].msg.encryption_metadata
             IN /\ answer_metadata.algorithm = "AES-256-GCM"
                /\ answer_metadata.key_id = key_id
                /\ answer_metadata.iv # request_metadata.iv
                /\ answer_metadata.iv
                      = B64Encode(B64Decode(turns'[r].reply.encrypted_response).val.iv)
                /\ \A i \in DOMAIN messages :
                      messages[i].encryption_metadata.iv # answer_metadata.iv
                /\ \A q \in Reqs \ {r} :
                      turns[q].reply.encryption_metadata.iv # answer_metadata.iv
                /\ turns'[r].msg = turns[r].msg
    /\ StoresBotTurn(r)
          => /\ messages'[Len(messages')].sender_type = "bot"
             /\ messages'[Len(messages')].encryption_metadata
                   = turns[r].reply.encryption_metadata
             /\ \E i \in DOMAIN messages' : UserTurnOf(turns[r], messages'[i])
    /\ Returns(r)
          => /\ resp'.reply.encryption_metadata = turns[r].reply.encryption_metadata
             /\ resp'.reply.encryption_metadata.key_id = key_id

\* C30 as stated: the reply of a chat turn is encrypted under the request's
\* metadata shape, and the key_id its metadata carries is the same as the
\* request's.
C30_ReplyMetadataAsStated ==
    [][\A r \in Reqs :
          ReplyUnderRequestShape(r, turns[r].msg.encryption_metadata.key_id)]_vars

\* C30, amended: the reply of a chat turn is encrypted under the request's
\* metadata shape, and the key_id its metadata carries is the request's, or
\* "placeholder" when the request's metadata carries no key_id.
C30_ReplyMetadata ==
    [][\A r \in Reqs :
          ReplyUnderRequestShape(r,
              IF turns[r].msg.encryption_metadata.key_id = "" THEN "placeholder"
              ELSE turns[r].msg.encryption_metadata.key_id)]_vars

\* two replies are in the making at once, one for a request under
\* flutter_app_key and one, carrying placeholder, for a request whose
\* metadata has no key_id
C30_Witness ==
    /\ turns["r1"].pc = "generated"
    /\ turns["r2"].pc = "generated"
    /\ turns["r1"].msg.encryption_metadata.key_id = "flutter_app_key"
    /\ turns["r1"].reply.encryption_metadata.key_id = "flutter_app_key"
    /\ turns["r2"].msg.encryption_metadata.key_id = ""
    /\ turns["r2"].reply.encryption_metadata.key_id = "placeholder"
    /\ turns["r1"].reply.encryption_metadata.iv # turns["r2"].reply.encryption_metadata.iv

\* C31: the plaintext history handed to the generation backend consists, in
\* insertion order, of one entry per stored message of the session that has
\* metadata, each entry carrying that message's role and the decryption of
\* that message's ciphertext under that message's own stored metadata.
C31_ContextAssembly ==
    [][ \A r \in Reqs :
          BuildsContext(r)
              => \A stored \in {SelectSeq(MessagesOf(messages, turns[r].session_id),
                                          LAMBDA row : row.encryption_metadata # EmptyMetadata)},
                    handed \in {turns'[r].context.history} :
                    /\ Len(handed) = Len(stored)
                    /\ \A i \in 1..Len(stored) :
                          /\ i <= Len(handed)
                          /\ handed[i].role = stored[i].sender_type
                          /\ [ok |-> TRUE, val |-> handed[i].content]
                               = decrypt_message(stored[i].encrypted_content,
                                                 stored[i].encryption_metadata) ]_vars

\* the algorithm tags the codec has a cipher for
SupportedAlgorithms == {"AES-256-GCM"}

\* C32: decrypt_message rejects metadata whose algorithm tag is not one the
\* codec supports, and a chat turn given such metadata builds no context
\* from it, rather than silently decrypting as AES-256-GCM.
C32_UnsupportedAlgorithm ==
    /\ (codec.pc = "decrypted" /\ codec.metadata.algorithm \notin SupportedAlgorithms)
          => ~codec.result.ok
    /\ \A r \in Reqs :
          (/\ turns[r].pc \in {"generated", "bot_checked", "bot_stored"}
           /\ turns[r].msg.encryption_metadata.algorithm \notin SupportedAlgorithms)
              => ~turns[r].context.ok

\* C33: DELETE /sessions/{id} and PUT /sessions/{id}/title answer 404 with
\* detail "Session not found or access denied" whenever the store operation
\* returned false, and answer with the success message exactly when it
\* returned true (resp.ret tells whether the store operation returned true).
C33_NotFoundAnswer ==
    /\ resp.op = "delete"
          => IF resp.ret
             THEN resp.status = 200 /\ resp.detail = "Session deleted successfully"
             ELSE resp.status = 404 /\ resp.detail = AccessDenied
    /\ resp.op = "title"
          => IF resp.ret
             THEN resp.status = 200 /\ resp.detail = "Session title updated successfully"
             ELSE resp.status = 404 /\ resp.detail = AccessDenied

\* C34: for every chat turn that reaches Returned, the ciphertext, encryption
\* metadata, content hash and sources in the response are exactly those of
\* the bot message that the same turn appended to the session named by the
\* response's session_id, as stored and as get_history gives them back.
C34_ReturnedIsStored ==
    [][ \A r \in Reqs :
          Returns(r)
              => /\ messages' = messages
                 /\ \E i \in DOMAIN messages :
                       \A bot \in {messages[i]} :
                          /\ bot.id = turns[r].message_id
                          /\ \A j \in DOMAIN messages : messages[j].id = bot.id => j = i
                          /\ bot.session_id = resp'.session_id
                          /\ bot.session_id = turns[r].session_id
                          /\ bot.sender_type = "bot"
                          /\ B64Encode(bot.encrypted_content) = resp'.reply.encrypted_response
                          /\ bot.encryption_metadata = resp'.reply.encryption_metadata
                          /\ bot.content_hash = resp'.reply.content_hash
                          /\ bot.message_data = SourcesData(resp'.reply.sources)
                          /\ HistoryDict(bot).encrypted_content = resp'.reply.encrypted_response
                          /\ HistoryDict(bot).encryption_metadata
                               = resp'.reply.encryption_metadata
                          /\ HistoryDict(bot).content_hash = resp'.reply.content_hash ]_vars

\* a turn returned its reply after another session had been deleted, and
\* the newest message is the bot turn with the returned ciphertext
C34_Witness ==
    /\ resp.op = "chat"
    /\ resp.status = 200
    /\ uuids.sessions = 2
    /\ DOMAIN sessions = {resp.session_id}
    /\ messages # <<>>
    /\ messages[Len(messages)].session_id = resp.session_id
    /\ messages[Len(messages)].sender_type = "bot"
    /\ B64Encode(messages[Len(messages)].encrypted_content) = resp.reply.encrypted_response
    /\ messages[Len(messages)].message_data = SourcesData(resp.reply.sources)

\* chat request r, sent with no session_id, ends in an error response in this step
FailsAfterAutoCreate(r) ==
    /\ turns[r].pc # "idle"
    /\ AutoCreates(turns[r])
    /\ turns'[r].pc = "idle"
    /\ resp'.op = "chat"
    /\ resp'.status # 200

\* C35: when a chat turn sent with no session_id ends in an error response,
\* no session has been created by that turn: the session the turn made is
\* not among the stored sessions, so the caller's session list is as before
\* the turn.
C35_NoSessionLeftBehind ==
    [][ \A r \in Reqs :
          FailsAfterAutoCreate(r)
              => /\ turns[r].session_id \notin DOMAIN sessions'
                 /\ turns[r].session_id \notin SessionsOf(turns[r].user)' ]_vars

\* the metadata with its key_id changed to one of the other kind, as
\* Tamper("key_id", ...) changes it
OtherKeyId(metadata) == Tamper("key_id", Raw(""), metadata).metadata

\* C36: derive_key_from_metadata maps the well-known key_id
\* 'flutter_app_key' and any other key_id to different keys, so a ciphertext
\* encrypted under one of them fails to decrypt when the metadata's key_id
\* is changed to the other (same IV).
C36_KeySeparation ==
    (codec.pc = "decrypted" /\ codec.tamper = "key_id")
        => /\ derive_key_from_metadata(codec.metadata)
                # derive_key_from_metadata(OtherKeyId(codec.metadata))
           /\ ~codec.result.ok

\* C37: in a chat turn the new user message is the query built for the
\* generation backend, and the history built alongside it contains only the
\* turns that were in the session before this turn: one entry for every
\* stored message with content except the turn's own user message, which
\* the session holds by then.
C37_QueryOnce ==
    [][ \A r \in Reqs :
          BuildsContext(r)
              => \A handed \in {turns'[r].context.history},
                    rows \in {WithContent(turns'[r].history)} :
                    /\ [ok |-> TRUE, val |-> turns'[r].context.query]
                         = decrypt_message(B64Decode(turns[r].msg.encrypted_message).val,
                                           turns[r].msg.encryption_metadata)
                    /\ \E own \in 1..Len(messages) : UserTurnOf(turns[r], messages[own])
                    /\ Len(handed) = Len(rows) - 1 ]_vars

\* this step is a read: a call of get_history, get_user_sessions or
\* get_encrypted_session_data on its own (either query of get_history), the
\* get_session_by_id of a chat turn that names a session, or the
\* get_history and the decrypt_message calls of a chat turn
ReadStep ==
    \/ EndpointStep("history")
    \/ \E c \in Calls : calls[c].pc = "idle" /\ calls'[c].op = "history"
    \/ \E c \in Calls : Completes(c, "history")
    \/ EndpointStep("sessions")
    \/ EndpointStep("session_data")
    \/ resp'.op = "chat" /\ resp'.status = 403 /\ turns' = turns /\ calls' = calls
    \/ \E r \in Reqs :
          /\ turns[r].pc = "idle"
          /\ turns'[r].pc = "received"
          /\ ~AutoCreates(turns'[r])
    \/ \E r \in Reqs :
          turns[r].pc \in {"user_refreshed", "session_found"} /\ turns'[r] # turns[r]

\* C38: get_session_by_id, get_history, get_user_sessions,
\* get_encrypted_session_data and decrypt_message, whether they succeed or
\* are denied, leave every session (title, owner, timestamps, session data)
\* and every message (ciphertext, metadata, hash) unchanged.
C38_ReadsHaveNoEffect ==
    [][ ReadStep
          => /\ sessions' = sessions
             /\ messages' = messages
             /\ \A user \in Users, session_id \in DOMAIN sessions :
                   get_encrypted_session_data(session_id, user)'
                       = get_encrypted_session_data(session_id, user) ]_vars

\* a user was denied the session data of another user's session, which
\* holds a user turn and a bot turn
C38_Witness ==
    /\ resp.op = "session_data"
    /\ ~resp.ret
    /\ resp.session_id \in DOMAIN sessions
    /\ sessions[resp.session_id].user_id # resp.user
    /\ Len(MessagesOf(messages, resp.session_id)) = 2

\* the connection attempts of a log, without the sleeps
AttemptsOf(log) == SelectSeq(log, LAMBDA e : e # "sleep")

\* what wait_for_db has done so far is in order: attempts and sleeps
\* alternate, beginning with an attempt, a sleep follows a failed attempt
\* only, nothing follows an attempt that connected, and no more than
\* max_attempts attempts are made; once it has returned, the result is true
\* exactly when the last attempt connected and false exactly when all
\* max_attempts attempts failed, and the last thing done was not a sleep
WaitInOrder ==
    /\ Len(AttemptsOf(wait.log)) <= wait.max_attempts
    /\ \A i \in 1..Len(wait.log) :
          /\ (wait.log[i] = "sleep") <=> (i % 2 = 0)
          /\ wait.log[i] = "connected" => i = Len(wait.log)
    /\ wait.pc = "returned"
          => /\ wait.result <=> (wait.log # <<>> /\ wait.log[Len(wait.log)] = "connected")
             /\ ~wait.result
                   <=> /\ Len(AttemptsOf(wait.log)) = wait.max_attempts
                       /\ \A i \in 1..Len(wait.log) : wait.log[i] # "connected"
             /\ wait.log # <<>> => wait.log[Len(wait.log)] # "sleep"

\* C39: wait_for_db(url, max_attempts) always terminates after at most
\* max_attempts connection attempts: it returns true at the first attempt
\* that connects and runs the probe query and makes no further attempt,
\* returns false exactly when all max_attempts attempts fail, and waits
\* between attempts but not after the last failed one.
C39_WaitTerminates == []WaitInOrder /\ <>(wait.pc = "returned")

\* wait_for_db returned false after three attempts, of which one could not
\* connect and one failed at the probe query, with two sleeps in between
C39_Witness ==
    /\ wait.pc = "returned"
    /\ ~wait.result
    /\ wait.max_attempts = 3
    /\ Len(wait.log) = 5
    /\ \E i, j \in 1..5 : wait.log[i] = "connect_failed" /\ wait.log[j] = "probe_failed"

=============================================================================
